---- MODULE Spec2Model ----
(***************************************************************************)
(* A model of md-pdf-md's Markdown-to-PDF document pipeline:               *)
(*   parser.ts         parseMarkdown, generateId                           *)
(*   html-generator    generateHtml, wrapContentSections,                  *)
(*                     generateCoverPage, generateToc, escapeHtml          *)
(*   themes.ts         getTheme, the page-break rules of baseStyles        *)
(*   converter.ts      convertMarkdownToPdf                                *)
(*   pdf-generator     getBrowser, generatePdf                             *)
(*   pdf-postprocess   addMetadata, getPdfStats                            *)
(*   highlighter       processCodeBlocks, decodeHtml                       *)
(*   pdf-to-markdown   convertPdfToMarkdown, listVisionModels              *)
(*   cli               the default command and its two handlers            *)
(* JavaScript strings are sequences of one-character strings.  Serialized  *)
(* body markup is a sequence of block tokens (one token per top-level      *)
(* element, its trailing newline included).                                *)
(***************************************************************************)
EXTENDS Integers, Sequences, FiniteSets, TLC

VARIABLES pc, input, parsed, options, result,   \* one run of a document function
          conv,              \* the calls of convertMarkdownToPdf, one record each
          browserInstance,   \* pdf-generator's module variable: 0 is null
          browsers,          \* the browsers launched so far, "open" or "closed"
          pages,             \* the pages that are open
          files,             \* the file at each conversion's output path
          cleanups,          \* the calls of cleanup(), one record each
          cli,               \* the command-line process
          p2m,               \* the call of convertPdfToMarkdown and its vision server
          marked             \* the renderers registered with marked, oldest first

docVars == <<pc, input, parsed, options, result>>
procVars == <<conv, browserInstance, browsers, pages, files>>
callVars == <<cleanups, cli, p2m, marked>>
vars == <<pc, input, parsed, options, result, conv, browserInstance, browsers, pages, files,
          cleanups, cli, p2m, marked>>

\* no conversion has been started and no browser launched
NoConversions ==
  /\ conv = <<>>
  /\ browserInstance = 0
  /\ browsers = <<>>
  /\ pages = {}
  /\ files = <<>>

\* A value that is "not there yet" (a variable before the step that sets it).
None == [kind |-> "none"]

\* nobody has called cleanup(), no command is running, no PDF is being read
\* and nothing was registered with marked
NoCalls ==
  /\ cleanups = <<>>
  /\ cli = None
  /\ p2m = None
  /\ marked = <<>>

(***************************************************************************)
(* Bounds of the model.                                                    *)
(***************************************************************************)
MaxIdLen == 4      \* longest heading text given to generateId
MaxBody == 4       \* most block tokens in a body given to wrapContentSections
MaxBlocks == 3     \* most Markdown blocks in a parsed document
MaxFmLen == 2      \* longest front-matter string value

(***************************************************************************)
(* Generic helpers on sequences.                                           *)
(***************************************************************************)
SeqsUpTo(S, n) == UNION {[1..k -> S] : k \in 0..n}

Range(s) == {s[i] : i \in 1..Len(s)}

(***************************************************************************)
(* JavaScript character classes used by the regular expressions.           *)
(***************************************************************************)
UpperCase == {"A", "B"}
LowerCase == {"a", "b"}
Digits == {"1"}

\* \s
IsSpace(c) == c \in {" ", "\t", "\n"}

\* \w  is [A-Za-z0-9_]
IsWord(c) == c \in UpperCase \cup LowerCase \cup Digits \cup {"_"}

\* String.prototype.toLowerCase, one character
LowerChar(c) == CASE c = "A" -> "a" [] c = "B" -> "b" [] OTHER -> c

\* (a variant: the text is not lower-cased)
toLowerCase_Skipped(s) == s

toLowerCase(s) == [i \in 1..Len(s) |-> LowerChar(s[i])]

\* String.prototype.trim
RECURSIVE TrimLeft(_)
TrimLeft(s) == IF s # <<>> /\ IsSpace(Head(s)) THEN TrimLeft(Tail(s)) ELSE s

RECURSIVE TrimRight(_)
TrimRight(s) ==
  IF s # <<>> /\ IsSpace(s[Len(s)]) THEN TrimRight(SubSeq(s, 1, Len(s) - 1)) ELSE s

trim(s) == TrimRight(TrimLeft(s))

(***************************************************************************)
(* generateId (parser.ts:63-70)                                            *)
(***************************************************************************)
\* .replace(/[^\w\s-]/g, '')
KeepIdChar(c) == IsWord(c) \/ IsSpace(c) \/ c = "-"

StripNonIdChars(s) == SelectSeq(s, KeepIdChar)

\* .replace(/\s+/g, '-')
RECURSIVE SpaceRunsToHyphen(_)
SpaceRunsToHyphen(s) ==
  IF s = <<>> THEN <<>>
  ELSE IF IsSpace(Head(s)) THEN <<"-">> \o SpaceRunsToHyphen(TrimLeft(s))
  ELSE <<Head(s)>> \o SpaceRunsToHyphen(Tail(s))

\* .replace(/-+/g, '-')
RECURSIVE CollapseHyphens(_)
CollapseHyphens(s) ==
  IF s = <<>> THEN <<>>
  ELSE IF Head(s) = "-" /\ Len(s) > 1 /\ s[2] = "-" THEN CollapseHyphens(Tail(s))
  ELSE <<Head(s)>> \o CollapseHyphens(Tail(s))

generateId(text) ==
  trim(CollapseHyphens(SpaceRunsToHyphen(StripNonIdChars(toLowerCase(text)))))

(***************************************************************************)
(* Specification SpecId: generateId applied to every heading text marked   *)
(* can hand to renderer.heading (marked trims the raw heading text).       *)
(***************************************************************************)
IdChars == {"a", "B", "1", " ", "-", "_", "!"}

HeadingTexts == {s \in SeqsUpTo(IdChars, MaxIdLen) : trim(s) = s}

InitId ==
  /\ pc = "id"
  /\ input \in HeadingTexts
  /\ parsed = None
  /\ options = None
  /\ result = None
  /\ NoConversions
  /\ NoCalls

GenerateId ==
  /\ pc = "id"
  /\ result' = generateId(input)
  /\ pc' = "done"
  /\ UNCHANGED <<input, parsed, options>>
  /\ UNCHANGED <<procVars, callVars>>

NextId == GenerateId

SpecId == InitId /\ [][NextId]_vars

(***************************************************************************)
(* Body markup.  A body is a sequence of block tokens; a token stands for  *)
(* the serialized text of one top-level element.                           *)
(*   tag "h"      a heading element <hN ...>text</hN>; oneline is FALSE    *)
(*                when the element's content holds a line break (a raw     *)
(*                HTML block in the Markdown source)                       *)
(*   tag "p"      any other block (paragraph, list, table, code)           *)
(*   tag "ws"     text made of white space only                            *)
(*   tag "open"   <div class="section">                                    *)
(*   tag "close"  </div>                                                   *)
(* ids is the element's id attribute: <<>> when it has none.               *)
(***************************************************************************)
Token(tag, level, text, ids, oneline) ==
  [tag |-> tag, level |-> level, text |-> text, ids |-> ids, oneline |-> oneline]

HeadingToken(level, text, ids, oneline) == Token("h", level, text, ids, oneline)
Block == Token("p", 0, <<>>, <<>>, TRUE)
Blank == Token("ws", 0, <<>>, <<>>, TRUE)
SectionOpen == Token("open", 0, <<>>, <<>>, TRUE)
SectionClose == Token("close", 0, <<>>, <<>>, TRUE)

\* the token's text begins with "<h2": what indexOf('<h2') and (?!<h2) look for
StartsWithH2(t) == t.tag = "h" /\ t.level = 2

\* (a variant: the pattern written <h[23] also matches third-level headings)
MatchesH2orH3(t) == t.tag = "h" /\ t.level \in {2, 3} /\ t.oneline

\* /<h2[^>]*>.*?<\/h2>/ matches at the token's start: "." stops at a line break
MatchesH2(t) == StartsWithH2(t) /\ t.oneline

\* String.prototype.trim() of the token's text is non-empty
NonBlank(t) == t.tag # "ws"

\* The length of the longest prefix of s holding no token that begins "<h2":
\* what ((?:(?!<h2)[\s\S])*) consumes.
RECURSIVE UntilNextH2(_)
UntilNextH2(s) ==
  IF s = <<>> \/ StartsWithH2(Head(s)) THEN 0 ELSE 1 + UntilNextH2(Tail(s))

(***************************************************************************)
(* wrapContentSections (html-generator, src/unnamed/part_001:50-69)        *)
(***************************************************************************)
\* html.replace(/(<h2[^>]*>.*?<\/h2>)((?:(?!<h2)[\s\S])*)/g,
\*              '<div class="section">$1$2</div>')
RECURSIVE ReplaceH2Sections(_)
ReplaceH2Sections(html) ==
  IF html = <<>> THEN <<>>
  ELSE IF MatchesH2(Head(html))
    THEN LET rest == Tail(html)
             n == UntilNextH2(rest)
         IN <<SectionOpen, Head(html)>> \o SubSeq(rest, 1, n) \o <<SectionClose>>
              \o ReplaceH2Sections(SubSeq(rest, n + 1, Len(rest)))
    ELSE <<Head(html)>> \o ReplaceH2Sections(Tail(html))

\* wrapped.indexOf('<h2'), as a 1-based token index; 0 when there is none.
\* Tokens are non-empty texts, so the character index is > 0 exactly when the
\* token index is > 1.
IndexOfH2(s) ==
  IF \E i \in 1..Len(s) : StartsWithH2(s[i])
    THEN CHOOSE i \in 1..Len(s) :
           StartsWithH2(s[i]) /\ \A j \in 1..(i - 1) : ~StartsWithH2(s[j])
    ELSE 0

\* (a variant: a body without any h2 is wrapped whole)
wrapContentSections_WrapAll(html) ==
  IF IndexOfH2(html) = 0
    THEN <<SectionOpen>> \o html \o <<SectionClose>>
    ELSE ReplaceH2Sections(html)

wrapContentSections(html) ==
  LET wrapped == ReplaceH2Sections(html)
      firstH2Index == IndexOfH2(wrapped)
      beforeFirstH2 == SubSeq(wrapped, 1, firstH2Index - 1)
      afterFirstH2 == SubSeq(wrapped, firstH2Index, Len(wrapped))
  IN IF firstH2Index > 1 /\ (\E i \in 1..Len(beforeFirstH2) : NonBlank(beforeFirstH2[i]))
       THEN <<SectionOpen>> \o beforeFirstH2 \o <<SectionClose>> \o afterFirstH2
       ELSE wrapped

(***************************************************************************)
(* Specification SpecWrap: wrapContentSections applied to every body of up *)
(* to MaxBody tokens.                                                      *)
(***************************************************************************)
BodyTokens ==
  {HeadingToken(l, <<"A">>, <<>>, TRUE) : l \in 1..3}
    \cup {HeadingToken(2, <<"A">>, <<>>, FALSE), Block, Blank}

Bodies == SeqsUpTo(BodyTokens, MaxBody)

InitWrap ==
  /\ pc = "wrap"
  /\ input \in Bodies
  /\ parsed = None
  /\ options = None
  /\ result = None
  /\ NoConversions
  /\ NoCalls

WrapContentSections ==
  /\ pc = "wrap"
  /\ result' = wrapContentSections(input)
  /\ pc' = "done"
  /\ UNCHANGED <<input, parsed, options>>
  /\ UNCHANGED <<procVars, callVars>>

NextWrap == WrapContentSections

SpecWrap == InitWrap /\ [][NextWrap]_vars

(***************************************************************************)
(* Reading the container structure of a sectioned body.                    *)
(***************************************************************************)
IsOpen(t) == t.tag = "open"
IsClose(t) == t.tag = "close"
IsContent(t) == ~IsOpen(t) /\ ~IsClose(t)

CountIn(s, lo, hi, Test(_)) == Cardinality({i \in lo..hi : Test(s[i])})

\* How many Section containers are open around position i of s.
DepthAt(s, i) == CountIn(s, 1, i - 1, IsOpen) - CountIn(s, 1, i - 1, IsClose)

\* The close tag matching the open tag at position i.
MatchingClose(s, i) ==
  CHOOSE j \in (i + 1)..Len(s) :
    /\ IsClose(s[j])
    /\ DepthAt(s, j) = DepthAt(s, i) + 1
    /\ \A m \in (i + 1)..(j - 1) : IsClose(s[m]) => DepthAt(s, m) > DepthAt(s, i) + 1

StripSections(s) == SelectSeq(s, IsContent)

NumSections(s) == CountIn(s, 1, Len(s), IsOpen)
NumH2(s) == CountIn(s, 1, Len(s), StartsWithH2)

\* The top-level containers of s in order, each as the sequence of what it holds.
TopSections(s) ==
  LET tops == {i \in 1..Len(s) : IsOpen(s[i]) /\ DepthAt(s, i) = 0}
      Nth[n \in 0..Cardinality(tops)] ==
        IF n = 0 THEN 0
        ELSE CHOOSE i \in tops : i > Nth[n - 1] /\ \A m \in tops : m > Nth[n - 1] => i <= m
  IN [n \in 1..Cardinality(tops) |-> SubSeq(s, Nth[n] + 1, MatchingClose(s, Nth[n]) - 1)]

\* The body has content that is not white space before its first h2.
HasLeadingContent(body) ==
  \E i \in 1..Len(body) :
    /\ NonBlank(body[i]) /\ ~StartsWithH2(body[i])
    /\ \A j \in 1..i : ~StartsWithH2(body[j])

(***************************************************************************)
(* Front matter.  gray-matter hands over whatever the YAML block holds: a  *)
(* key may be missing, or carry a string, a number or a timestamp (a Date). *)
(***************************************************************************)
Undefined == [type |-> "undefined", str |-> <<>>, num |-> 0]
Str(s) == [type |-> "string", str |-> s, num |-> 0]
Num(n) == [type |-> "number", str |-> <<>>, num |-> n]
DateValue == [type |-> "date", str |-> <<>>, num |-> 0]

\* JavaScript truthiness: what "!frontMatter.title" and "frontMatter.x ? .. : .." test
Truthy(v) ==
  CASE v.type = "undefined" -> FALSE
    [] v.type = "string" -> v.str # <<>>
    [] v.type = "number" -> v.num # 0
    [] OTHER -> TRUE

FmKeys == {"title", "subtitle", "author", "date"}

EmptyFm == [k \in FmKeys |-> Undefined]

(***************************************************************************)
(* escapeHtml (src/unnamed/part_001:181-190)                               *)
(***************************************************************************)
Entity(c) ==
  CASE c = "&" -> <<"&", "a", "m", "p", ";">>
    [] c = "<" -> <<"&", "l", "t", ";">>
    [] c = ">" -> <<"&", "g", "t", ";">>
    [] c = "\"" -> <<"&", "q", "u", "o", "t", ";">>
    [] c = "'" -> <<"&", "#", "3", "9", ";">>
    [] OTHER -> <<c>>

\* text.replace(/[&<>"']/g, char => map[char]) on a string
RECURSIVE EscapeString(_)
EscapeString(s) == IF s = <<>> THEN <<>> ELSE Entity(Head(s)) \o EscapeString(Tail(s))

\* escapeHtml on a JavaScript value: a value that is no string has no
\* .replace method, and the call throws a TypeError.
escapeHtml(v) ==
  IF v.type = "string"
    THEN [threw |-> FALSE, text |-> EscapeString(v.str)]
    ELSE [threw |-> TRUE, text |-> <<>>]

(***************************************************************************)
(* generateCoverPage (src/unnamed/part_001:96-120)                         *)
(***************************************************************************)
NoMarkup == [kind |-> "empty", elems |-> <<>>]
Thrown == [kind |-> "throw", elems |-> <<>>]

\* new Date(frontMatter.date).toLocaleDateString(): some date text
LocaleDateString(v) == <<"1", "/", "1", "5", "/", "2", "5">>

CoverElem(class, text) == [class |-> class, text |-> text]

\* (a variant: the guard forgets the date)
CoverWanted_NoDate(frontMatter) == Truthy(frontMatter.title) \/ Truthy(frontMatter.author)

\* the negation of the early-return test of line 97
CoverWanted(frontMatter) ==
  Truthy(frontMatter.title) \/ Truthy(frontMatter.author) \/ Truthy(frontMatter.date)

generateCoverPage(frontMatter) ==
  LET t == escapeHtml(frontMatter.title)
      st == escapeHtml(frontMatter.subtitle)
      a == escapeHtml(frontMatter.author)
      date == IF frontMatter.date.type = "string"
                THEN frontMatter.date
                ELSE Str(LocaleDateString(frontMatter.date))
      d == escapeHtml(date)
      title == IF Truthy(frontMatter.title)
                 THEN <<CoverElem("cover-title", t.text)>> ELSE <<>>
      subtitle == IF Truthy(frontMatter.subtitle)
                    THEN <<CoverElem("cover-subtitle", st.text)>> ELSE <<>>
      metaParts == (IF Truthy(frontMatter.author)
                      THEN <<CoverElem("Author:", a.text)>> ELSE <<>>)
                   \o (IF Truthy(frontMatter.date)
                         THEN <<CoverElem("Date:", d.text)>> ELSE <<>>)
  IN IF ~CoverWanted(frontMatter) THEN NoMarkup
     ELSE IF \/ Truthy(frontMatter.title) /\ t.threw
             \/ Truthy(frontMatter.subtitle) /\ st.threw
             \/ Truthy(frontMatter.author) /\ a.threw
             \/ Truthy(frontMatter.date) /\ d.threw
       THEN Thrown
       ELSE [kind |-> "cover", elems |-> title \o subtitle \o metaParts]

(***************************************************************************)
(* generateToc (src/unnamed/part_001:125-143)                              *)
(***************************************************************************)
TocLink(item) ==
  [class |-> item.level, href |-> item.id, text |-> escapeHtml(Str(item.title)).text]

generateToc(toc) ==
  IF Len(toc) = 0 THEN NoMarkup
  ELSE [kind |-> "toc", elems |-> [i \in 1..Len(toc) |-> TocLink(toc[i])]]

(***************************************************************************)
(* Themes (src/src/themes.ts).  A style sheet is the sequence of the       *)
(* pieces of CSS text it is concatenated from; baseStyles holds the page   *)
(* break rules for headings.                                               *)
(***************************************************************************)
baseStyles == <<"baseStyles">>

githubTheme == [name |-> "github", css |-> baseStyles]
githubDarkTheme == [name |-> "github-dark", css |-> baseStyles \o <<"github-dark">>]
academicTheme == [name |-> "academic", css |-> baseStyles \o <<"academic">>]
minimalTheme == [name |-> "minimal", css |-> baseStyles \o <<"minimal">>]

\* options.theme when the caller gives none
NoThemeName == "(undefined)"

\* the own keys of the `themes` object literal (lines 568-573)
OwnThemeKeys == {"github", "github-dark", "academic", "minimal"}

\* `themes` is a plain object: a property read that finds no own key goes
\* on to Object.prototype, whose members carry these names among others.
ObjectPrototypeKeys == {"constructor", "toString"}

\* what themes[key] evaluates to for a key of ObjectPrototypeKeys: a
\* function of Object.prototype.  It is truthy, and its css property is
\* undefined, which the template of generateHtml prints as "undefined".
PrototypeMember(key) ==
  [name |-> IF key = "constructor" THEN "Object" ELSE key, css |-> <<"undefined">>]

\* (a variant: only own keys are looked up)
ThemeLookup_OwnKeysOnly(themeName) ==
  CASE themeName = "github" -> githubTheme
    [] themeName = "github-dark" -> githubDarkTheme
    [] themeName = "academic" -> academicTheme
    [] themeName = "minimal" -> minimalTheme
    [] OTHER -> githubTheme

\* themes[themeName] || githubTheme (line 575)
ThemeLookup(themeName) ==
  CASE themeName = "github" -> githubTheme
    [] themeName = "github-dark" -> githubDarkTheme
    [] themeName = "academic" -> academicTheme
    [] themeName = "minimal" -> minimalTheme
    [] themeName \in ObjectPrototypeKeys -> PrototypeMember(themeName)
    [] OTHER -> githubTheme

\* the default parameter value replaces an undefined argument (line 567)
getTheme(themeName) ==
  ThemeLookup(IF themeName = NoThemeName THEN "github" ELSE themeName)

(***************************************************************************)
(* generateHtml (src/unnamed/part_001:11-44)                               *)
(***************************************************************************)
DocumentTitle == <<"D", "o", "c", "u", "m", "e", "n", "t">>

Failure == [kind |-> "throw", title |-> <<>>, css |-> <<>>, cover |-> NoMarkup,
            toc |-> NoMarkup, content |-> <<>>]

\* (a variant: the table of contents is generated whether requested or not)
TocRequested_Always(opts) == TRUE

\* options.toc ? ... : '' (line 19)
TocRequested(opts) == opts.toc

generateHtml(p, opts) ==
  LET theme == getTheme(opts.theme)
      frontMatter == p.frontMatter
      coverPage == generateCoverPage(frontMatter)
      tocHtml == IF TocRequested(opts) THEN generateToc(p.toc) ELSE NoMarkup
      wrappedContent == wrapContentSections(p.html)
      \* frontMatter.title || 'Document'
      title == escapeHtml(IF Truthy(frontMatter.title)
                            THEN frontMatter.title ELSE Str(DocumentTitle))
  IN IF coverPage.kind = "throw" \/ title.threw THEN Failure
     ELSE [kind |-> "doc", title |-> title.text, css |-> theme.css,
           cover |-> coverPage, toc |-> tocHtml, content |-> wrappedContent]

(***************************************************************************)
(* parseMarkdown (parser.ts:20-58)                                         *)
(* A Markdown document is the front matter gray-matter returns and the     *)
(* sequence of block tokens marked lexes from the rest.                    *)
(***************************************************************************)
MdHeading(level, raw) == [type |-> "heading", depth |-> level, raw |-> raw]
MdParagraph == [type |-> "paragraph", depth |-> 0, raw |-> <<>>]

\* originalHeading (lines 29, 44): the heading method of a fresh
\* marked.Renderer, called without a slugger.  It renders <hN>text</hN> with
\* no id attribute; the gfmHeadingId renderer registered on line 11 is only
\* consulted when a later renderer returns false, which this one never does.
originalHeading(level, raw) == HeadingToken(level, raw, <<>>, TRUE)

\* (a variant: headings down to level 4 enter the TOC)
TocLevel_UpTo4(level) == level <= 4

\* line 35
TocLevel(level) == level <= 3

\* renderer.heading (lines 31-45): what it pushes on toc for one heading
TocEntries(block) ==
  IF block.type = "heading" /\ TocLevel(block.depth)
    THEN << [id |-> generateId(block.raw), title |-> block.raw, level |-> block.depth] >>
    ELSE <<>>

\* marked.parse walks the blocks in document order and calls the renderer
RECURSIVE RenderToc(_)
RenderToc(blocks) ==
  IF blocks = <<>> THEN <<>> ELSE TocEntries(Head(blocks)) \o RenderToc(Tail(blocks))

RenderBlock(block) ==
  IF block.type = "heading" THEN originalHeading(block.depth, block.raw) ELSE Block

parseMarkdown(content) ==
  [content |-> content.blocks,
   frontMatter |-> content.frontMatter,
   toc |-> RenderToc(content.blocks),
   html |-> [i \in 1..Len(content.blocks) |-> RenderBlock(content.blocks[i])]]

(***************************************************************************)
(* The document pipeline: parse, then assemble.  (Between the two the      *)
(* converter rewrites the code blocks of parsed.html; headings and the     *)
(* other blocks pass through it untouched.)                                *)
(***************************************************************************)
ParseMarkdown ==
  /\ pc = "parse"
  /\ parsed' = parseMarkdown(input)
  /\ pc' = "generate"
  /\ UNCHANGED <<input, options, result>>
  /\ UNCHANGED <<procVars, callVars>>

GenerateHtml ==
  /\ pc = "generate"
  /\ result' = generateHtml(parsed, options)
  /\ pc' = "done"
  /\ UNCHANGED <<input, parsed, options>>
  /\ UNCHANGED <<procVars, callVars>>

NextDoc == ParseMarkdown \/ GenerateHtml

\* PdfOptions (src/unnamed/part_002:5-24): the fields generateHtml reads
OptionsWith(themeNames) == [toc : BOOLEAN, theme : themeNames]

Options == OptionsWith({"github"})

\* Specification SpecDoc: documents without front matter, of up to MaxBlocks
\* blocks, whose heading texts are "A B" or "A-B".
DocTexts == {<<"A", " ", "B">>, <<"A", "-", "B">>}

MdBlocks == {MdHeading(l, t) : l \in 1..6, t \in DocTexts} \cup {MdParagraph}

InitDoc ==
  /\ pc = "parse"
  /\ input \in [frontMatter : {EmptyFm}, blocks : SeqsUpTo(MdBlocks, MaxBlocks)]
  /\ options \in Options
  /\ parsed = None
  /\ result = None
  /\ NoConversions
  /\ NoCalls

SpecDoc == InitDoc /\ [][NextDoc]_vars

\* Specification SpecCover: one front-matter key takes every value of
\* FmValues, the other keys a value of OtherValues; the body is fixed.
FmChars == {"a", "&", "<", ">", "\"", "'"}

FmValues ==
  {Undefined, Num(0), Num(7), DateValue} \cup {Str(s) : s \in SeqsUpTo(FmChars, MaxFmLen)}

OtherValues == {Undefined, Str(<<"<">>), Num(7)}

FrontMatters ==
  {[o \in FmKeys |-> IF o = k THEN v ELSE rest[o]] :
     k \in FmKeys, v \in FmValues, rest \in [FmKeys -> OtherValues]}

CoverBody == <<MdHeading(1, <<"A", " ", "B">>), MdParagraph>>

InitCover ==
  /\ pc = "parse"
  /\ input \in [frontMatter : FrontMatters, blocks : {CoverBody}]
  /\ options \in Options
  /\ parsed = None
  /\ result = None
  /\ NoConversions
  /\ NoCalls

SpecCover == InitCover /\ [][NextDoc]_vars

(***************************************************************************)
(* Claims about wrapContentSections (checked under SpecWrap).              *)
(***************************************************************************)
Wrapped == pc = "done"

\* The body is non-empty and every heading in it is on one line, as marked
\* renders a Markdown heading.
RenderedHeadings(body) ==
  body # <<>> /\ \A i \in 1..Len(body) : body[i].tag = "h" => body[i].oneline

\* A Section that holds nothing: an open tag directly followed by its close tag.
HasEmptySection(s) == \E i \in 1..(Len(s) - 1) : IsOpen(s[i]) /\ IsClose(s[i + 1])

\* Every container is a sibling of the others and every content token lies in
\* exactly one container.
FlatSections(s) ==
  \A i \in 1..Len(s) :
    /\ IsOpen(s[i]) => DepthAt(s, i) = 0
    /\ IsContent(s[i]) => DepthAt(s, i) = 1

\* C1: for a body with non-blank content before the first of k >= 1 h2
\* headings the output is exactly k+1 sibling Sections in source order: a
\* leading one with the content before the first h2 and no h2, then one per h2
\* that starts with the h2 and runs up to the next h2; every content token is
\* in exactly one Section and no Section is empty.  (Stated on bodies whose
\* headings marked rendered.)
C1_LeadingThenOnePerH2 ==
  (Wrapped /\ RenderedHeadings(input) /\ NumH2(input) >= 1 /\ HasLeadingContent(input)) =>
    LET secs == TopSections(result)
    IN /\ NumSections(result) = NumH2(input) + 1
       /\ FlatSections(result)
       /\ ~HasEmptySection(result)
       /\ Len(secs) = NumH2(input) + 1
       /\ NumH2(secs[1]) = 0
       /\ \A n \in 2..Len(secs) : StartsWithH2(secs[n][1]) /\ NumH2(secs[n]) = 1
       /\ StripSections(result) = input

\* C2: for a body that begins with an h2 there is no leading Section: the
\* first container is the Section of that h2 and there are as many containers
\* as h2 headings.  (Stated on bodies whose headings marked rendered.)
C2_NoLeadingSection ==
  (Wrapped /\ RenderedHeadings(input) /\ StartsWithH2(input[1])) =>
    /\ IsOpen(result[1])
    /\ result[2] = input[1]
    /\ NumSections(result) = NumH2(input)

\* C3 as stated: a body with no h2 heading comes out as exactly one Section
\* spanning the whole body.  (Stated on bodies that hold some content.)
C3_OneSectionSpanningBody ==
  (Wrapped /\ RenderedHeadings(input) /\ NumH2(input) = 0
     /\ \E i \in 1..Len(input) : NonBlank(input[i])) =>
    result = <<SectionOpen>> \o input \o <<SectionClose>>

\* C3 as amended: a body with no h2 heading comes out unchanged, with no
\* Section container around or inside it.
C3_NoH2LeftUnwrapped ==
  (Wrapped /\ NumH2(input) = 0) => (result = input /\ NumSections(result) = 0)

C3_Witness ==
  /\ Wrapped
  /\ NumH2(input) = 0
  /\ \E i, j \in 1..Len(input) :
       input[i].tag = "h" /\ input[i].level = 3 /\ input[j].tag = "p"
  /\ result = input

\* The first content token after position i of s, as a set (empty when none).
NextContent(s, i) ==
  {s[j] : j \in {j \in (i + 1)..Len(s) :
                   IsContent(s[j]) /\ \A m \in (i + 1)..(j - 1) : ~IsContent(s[m])}}

\* C4: sectioning only adds container tags: deleting the Section open and
\* close tags from the output gives back the input body, and a container
\* starts only at the very beginning of a body that has an h2 (the leading
\* Section) or directly before an h2, never at a heading of level 3 or deeper.
C4_OnlyAddsWrappers ==
  Wrapped =>
    /\ StripSections(result) = input
    /\ CountIn(result, 1, Len(result), IsOpen) = CountIn(result, 1, Len(result), IsClose)
    /\ \A i \in 1..Len(result) :
         IsOpen(result[i]) =>
           \/ \E t \in NextContent(result, i) : StartsWithH2(t)
           \/ i = 1 /\ NumH2(input) >= 1

C4_Witness ==
  /\ Wrapped
  /\ NumSections(result) >= 2
  /\ \E i, j, k \in 1..Len(input) :
       /\ i < j /\ j < k
       /\ StartsWithH2(input[i])
       /\ input[j].tag = "h" /\ input[j].level = 3
       /\ StartsWithH2(input[k])

(***************************************************************************)
(* Claims about generateId (checked under SpecId).                         *)
(***************************************************************************)
IdMade == pc = "done"

C8_NoEdgeOrDoubleHyphen ==
  (IdMade /\ result # <<>>) =>
    /\ result[1] # "-"
    /\ result[Len(result)] # "-"
    /\ \A i \in 1..(Len(result) - 1) : ~(result[i] = "-" /\ result[i + 1] = "-")

(***************************************************************************)
(* Claims about parseMarkdown and the TOC (checked under SpecDoc).         *)
(***************************************************************************)
Parsed == pc \in {"generate", "done"}
Assembled == pc = "done"

IsTocHeading(block) == block.type = "heading" /\ block.depth \in {1, 2, 3}

\* C5: the TOC has exactly one entry per heading of level 1, 2 or 3, in
\* document order, each with the heading's level and raw text; headings of
\* level 4 to 6 have no entry and stay in the body markup.
C5_TocListsLevels1To3 ==
  Parsed =>
    LET blocks == input.blocks
        toc == parsed.toc
        hs == {i \in 1..Len(blocks) : IsTocHeading(blocks[i])}
        rank(i) == Cardinality({j \in hs : j <= i})
    IN /\ Len(toc) = Cardinality(hs)
       /\ \A i \in hs : /\ toc[rank(i)].level = blocks[i].depth
                        /\ toc[rank(i)].title = blocks[i].raw
       /\ Len(parsed.html) = Len(blocks)
       /\ \A i \in 1..Len(blocks) :
            blocks[i].type = "heading" =>
              /\ parsed.html[i].tag = "h"
              /\ parsed.html[i].level = blocks[i].depth
              /\ parsed.html[i].text = blocks[i].raw

C5_Witness ==
  /\ Parsed
  /\ Len(parsed.toc) = 2
  /\ parsed.toc[1].level = 3 /\ parsed.toc[2].level = 1
  /\ parsed.toc[1].title # parsed.toc[2].title
  /\ \E i \in 1..Len(input.blocks) : input.blocks[i].depth = 5
  /\ \E i \in 1..Len(parsed.html) : parsed.html[i].level = 5

\* The heading elements of a body that carry the anchor id a.
Anchored(body, a) == {i \in 1..Len(body) : body[i].tag = "h" /\ body[i].ids = <<a>>}

\* C6: every TOC entry's link target #id is the anchor id of exactly one
\* heading element of the rendered body, and no two headings share an id.
C6_TocLinksResolve ==
  (Assembled /\ result.kind = "doc" /\ result.toc.kind = "toc") =>
    /\ \A n \in 1..Len(result.toc.elems) :
         Cardinality(Anchored(result.content, result.toc.elems[n].href)) = 1
    /\ \A i, j \in 1..Len(result.content) :
         (i # j /\ result.content[i].tag = "h" /\ result.content[j].tag = "h"
            /\ result.content[i].ids # <<>>)
           => result.content[i].ids # result.content[j].ids

(***************************************************************************)
(* Claims about the cover and escaping (checked under SpecCover).          *)
(***************************************************************************)
Reserved == {"&", "<", ">", "\"", "'"}

StartsWith(s, prefix) ==
  Len(s) >= Len(prefix) /\ SubSeq(s, 1, Len(prefix)) = prefix

\* What a browser shows for escaped text: each of the five entities decoded,
\* in one pass from left to right.
RECURSIVE Unescape(_)
Unescape(s) ==
  IF s = <<>> THEN <<>>
  ELSE IF \E c \in Reserved : StartsWith(s, Entity(c))
    THEN LET c == CHOOSE c \in Reserved : StartsWith(s, Entity(c))
         IN <<c>> \o Unescape(SubSeq(s, Len(Entity(c)) + 1, Len(s)))
    ELSE <<Head(s)>> \o Unescape(Tail(s))

\* The front-matter key a cover element shows.
KeyOf(class) ==
  CASE class = "cover-title" -> "title"
    [] class = "cover-subtitle" -> "subtitle"
    [] class = "Author:" -> "author"
    [] OTHER -> "date"

\* text is the escaped form of the front-matter value v: no reserved
\* character is left in it as such, and un-escaping it gives v back.
EmbedsEscaped(text, v) ==
  /\ v.type = "string"
  /\ \A i \in 1..Len(text) :
       text[i] \in Reserved =>
         \E c \in Reserved : StartsWith(SubSeq(text, i, Len(text)), Entity(c))
  /\ Unescape(text) = v.str

\* C9: for every value the front-matter parser can deliver for title,
\* subtitle, author and date, and for every heading title, the value is
\* embedded in the assembled document with the five reserved characters
\* escaped, and un-escaping the embedded text gives the value back.
C9_FreeTextEscaped ==
  Assembled =>
    /\ result.kind = "doc"
    /\ Truthy(input.frontMatter.title) =>
         EmbedsEscaped(result.title, input.frontMatter.title)
    /\ \A n \in 1..Len(result.cover.elems) :
         EmbedsEscaped(result.cover.elems[n].text,
                       input.frontMatter[KeyOf(result.cover.elems[n].class)])
    /\ \A n \in 1..Len(result.toc.elems) :
         EmbedsEscaped(result.toc.elems[n].text, Str(parsed.toc[n].title))

\* A field counts as present when its value is not missing, empty or zero.
Present(v) == v # Undefined /\ v # Str(<<>>) /\ v # Num(0)

ElemsOf(cover, key) == {n \in 1..Len(cover.elems) : KeyOf(cover.elems[n].class) = key}

\* C10: an assembled document has a cover block exactly when the front matter
\* has a title, an author or a date; in the cover every present field
\* (subtitle included) has one element of its own and an absent field has
\* none.
C10_CoverIffTitleAuthorDate ==
  (Assembled /\ result.kind = "doc") =>
    LET fm == input.frontMatter
        cover == result.cover
    IN /\ cover.kind = "cover" <=>
            (Present(fm.title) \/ Present(fm.author) \/ Present(fm.date))
       /\ cover.kind # "cover" => cover.elems = <<>>
       /\ cover.kind = "cover" =>
            \A k \in FmKeys :
              Cardinality(ElemsOf(cover, k)) = (IF Present(fm[k]) THEN 1 ELSE 0)

C10_Witness ==
  /\ Assembled
  /\ result.kind = "doc"
  /\ ~Present(input.frontMatter.title)
  /\ ~Present(input.frontMatter.author)
  /\ ~Present(input.frontMatter.subtitle)
  /\ input.frontMatter.date = Str(<<"<">>)
  /\ result.cover.kind = "cover"
  /\ Len(result.cover.elems) = 1
  /\ result.cover.elems[1].class = "Date:"

(***************************************************************************)
(* C11  The assembled document contains a table-of-contents block exactly  *)
(* when the caller requested one and the heading list is not empty; the    *)
(* block then has one entry per item of the heading list, in its order,    *)
(* each linking to the item's id and carrying the class of its level.      *)
(***************************************************************************)
C11_TocBlockIffRequestedAndHeadings ==
  Assembled =>
    /\ result.kind = "doc"
    /\ (result.toc.kind = "toc") <=> (options.toc /\ Len(parsed.toc) > 0)
    /\ result.toc.kind = "toc" =>
         /\ Len(result.toc.elems) = Len(parsed.toc)
         /\ \A i \in 1..Len(parsed.toc) :
              /\ result.toc.elems[i].href = parsed.toc[i].id
              /\ result.toc.elems[i].class = parsed.toc[i].level

C11_Witness ==
  /\ Assembled
  /\ options.toc
  /\ result.toc.kind = "toc"
  /\ Len(result.toc.elems) = 3
  /\ result.toc.elems[1].class # result.toc.elems[2].class

(***************************************************************************)
(* Page breaks before h1 (themes.ts:59-65, 130-145), in the document       *)
(* generateHtml assembles (part_001:36-41): the cover block, the TOC block *)
(* and <div class="content"> are the children of body; the body markup is  *)
(* inside the content block.                                               *)
(***************************************************************************)
MaxOf(S) == CHOOSE x \in S : \A y \in S : y <= x
MinOf(S) == CHOOSE x \in S : \A y \in S : x <= y

\* the class of the element sibling just before the element at content[i]:
\* "(none)" when the element is the first child of its parent, "section"
\* for a Section container, "" for an element without a class
PrevSiblingClass(doc, i) ==
  LET before == {j \in 1..(i - 1) : NonBlank(doc.content[j])}
  IN IF before = {} THEN "(none)"
     ELSE LET t == doc.content[MaxOf(before)]
          IN IF IsOpen(t) THEN "(none)" ELSE IF IsClose(t) THEN "section" ELSE ""

\* (a variant: without the h1:first-child selector)
MatchesAvoidRule_SiblingOnly(doc, i) ==
  PrevSiblingClass(doc, i) \in {"cover-page", "toc"}

\* h1:first-child, .cover-page + h1, .toc + h1 (lines 140-142)
MatchesAvoidRule(doc, i) ==
  \/ PrevSiblingClass(doc, i) = "(none)"
  \/ PrevSiblingClass(doc, i) = "cover-page"
  \/ PrevSiblingClass(doc, i) = "toc"

\* the cascade for page-break-before on the h1 at content[i]: the rule of
\* lines 140-145 is more specific than `h1` (line 137), which comes after
\* `h1, ..., h6` (line 64); without baseStyles the property keeps its
\* initial value
PageBreakBefore(doc, i) ==
  IF "baseStyles" \notin Range(doc.css) THEN "auto"
  ELSE IF MatchesAvoidRule(doc, i) THEN "avoid" ELSE "always"

H1s(content) == {i \in 1..Len(content) : content[i].tag = "h" /\ content[i].level = 1}

\* Specification SpecPage: documents of h1, h2 and paragraphs, with and
\* without a cover and a TOC, under every theme name of ThemeNames.
ThemeNames == OwnThemeKeys \cup ObjectPrototypeKeys \cup {NoThemeName, "", "solarized"}

PageBlocks == {MdHeading(1, <<"A">>), MdHeading(2, <<"B">>), MdParagraph}

TitleOnly == [k \in FmKeys |-> IF k = "title" THEN Str(<<"a">>) ELSE Undefined]

InitPage ==
  /\ pc = "parse"
  /\ input \in [frontMatter : {EmptyFm, TitleOnly}, blocks : SeqsUpTo(PageBlocks, MaxBlocks)]
  /\ options \in OptionsWith(ThemeNames)
  /\ parsed = None
  /\ result = None
  /\ NoConversions
  /\ NoCalls

SpecPage == InitPage /\ [][NextDoc]_vars

(***************************************************************************)
(* C12  For every theme name outside github, github-dark, academic,        *)
(* minimal, and when no name is given, getTheme returns the github bundle  *)
(* and the document carries the github style sheet.                        *)
(***************************************************************************)
C12_UnknownNamesFallBackToGithub ==
  Assembled /\ options.theme \notin OwnThemeKeys =>
    /\ getTheme(options.theme) = githubTheme
    /\ result.css = githubTheme.css

(***************************************************************************)
(* C13  The first h1 of the body is never given a forced page break        *)
(* before it, whatever precedes it, and every later h1 is forced onto a    *)
(* new page.  (Stated for the documents that carry the base style rules.)  *)
(***************************************************************************)
StyledDocument == Assembled /\ result.kind = "doc" /\ "baseStyles" \in Range(result.css)

C13_FirstH1NeverForced ==
  StyledDocument =>
    \A i \in H1s(result.content) :
      IF i = MinOf(H1s(result.content))
        THEN PageBreakBefore(result, i) # "always"
        ELSE PageBreakBefore(result, i) = "always"

\* nothing but white space lies between the start of the element's
\* container (the content block or a Section) and the element
LeadsItsContainer(content, i) ==
  LET before == {j \in 1..(i - 1) : NonBlank(content[j])}
  IN before = {} \/ IsOpen(content[MaxOf(before)])

\* C13 (amended)  Under the base style rules an h1 of the body escapes the
\* forced page break exactly when it is the first element of its container
\* (the content block or a Section), which only the first h1 of the body
\* can be; every other h1, a first h1 that follows other body content
\* included, is forced onto a new page.
C13_H1ForcedUnlessFirstInContainer ==
  StyledDocument =>
    \A i \in H1s(result.content) :
      /\ PageBreakBefore(result, i) = (IF LeadsItsContainer(result.content, i)
                                         THEN "avoid" ELSE "always")
      /\ LeadsItsContainer(result.content, i) => i = MinOf(H1s(result.content))

C13_Witness ==
  /\ StyledDocument
  /\ result.cover.kind = "cover"
  /\ result.toc.kind = "toc"
  /\ \E i, j \in H1s(result.content) :
       /\ i < j
       /\ i = MinOf(H1s(result.content))
       /\ ~LeadsItsContainer(result.content, i)
       /\ PageBreakBefore(result, i) = "always"
       /\ PageBreakBefore(result, j) = "always"

(***************************************************************************)
(* convertMarkdownToPdf (src/src/converter.ts:17-99) and the PDF generator *)
(* it calls (src/src/parser.ts:436-526).  Every call is a record of conv;  *)
(* its pc names the step the call performs next.  The steps are separated  *)
(* by the awaits of the code, so the steps of calls that are in flight     *)
(* together interleave.  What the file system and the browser answer is    *)
(* chosen in each step.                                                    *)
(***************************************************************************)
NumConversions == 2    \* calls in flight together in SpecRender

Conversions == DOMAIN conv

\* ConversionResult (src/unnamed/part_002:77-86); stats is <<>> when absent
NoStats == <<>>
Pending == [success |-> FALSE, outputPath |-> "", error |-> "", stats |-> NoStats]

\* (a variant: the failure result names the output path)
FailureResult_KeepsPath(error) ==
  [success |-> FALSE, outputPath |-> "doc.pdf", error |-> error, stats |-> NoStats]

\* converter.ts:30-34 and 92-98
FailureResult(error) ==
  [success |-> FALSE, outputPath |-> "", error |-> error, stats |-> NoStats]

\* converter.ts:82-90
SuccessResult(outputPath, stats) ==
  [success |-> TRUE, outputPath |-> outputPath, error |-> "", stats |-> <<stats>>]

\* the catch block of convertMarkdownToPdf: the call resolves with a failure
Rejected(c, error) == [c EXCEPT !.pc = "returned", !.result = FailureResult(error)]

\* (a variant: every failed step is fatal)
IsFatal_Always(step) == TRUE

\* Steps with a catch of their own only warn: the custom CSS read
\* (converter.ts:48-55), addMetadata (pdf-postprocess.ts:74-78) and
\* getPdfStats (pdf-postprocess.ts:96-101).
IsFatal(step) == step \notin {"readCss", "addMetadata", "getPdfStats"}

\* a step of the call failed with this error
Failed(c, step, error) ==
  IF IsFatal(step) THEN Rejected(c, error) ELSE [c EXCEPT !.warnings = @ \cup {step}]

\* the call begins this step
Begin(c, step) == [c EXCEPT !.log = Append(@, step)]

\* options.output || getDefaultOutputPath(options.input), input being doc.md
getDefaultOutputPath == "doc.pdf"
OutputPathOf(c) == IF c.options.output # "" THEN c.options.output ELSE getDefaultOutputPath

(***************************************************************************)
(* validateMarkdown (parser.ts:75-86).  A content is its length, whether   *)
(* it is white space only, and the document it holds.                      *)
(***************************************************************************)
MaxContentLength == 10 * 1024 * 1024

Content(length, blank, malformed, frontMatter, blocks) ==
  [length |-> length, blank |-> blank, malformed |-> malformed,
   frontMatter |-> frontMatter, blocks |-> blocks]

NoContent == Content(0, TRUE, FALSE, EmptyFm, <<>>)

Valid == [valid |-> TRUE, error |-> ""]
Invalid(error) == [valid |-> FALSE, error |-> error]

\* (a variant: a content of exactly the ceiling is refused)
validateMarkdown_AtLeast(content) ==
  IF content.length = 0 \/ content.blank THEN Invalid("Markdown content is empty")
  ELSE IF content.length >= MaxContentLength
    THEN Invalid("Markdown file is too large (max 10MB)")
  ELSE Valid

validateMarkdown(content) ==
  IF content.length = 0 \/ content.blank THEN Invalid("Markdown content is empty")
  ELSE IF content.length > MaxContentLength
    THEN Invalid("Markdown file is too large (max 10MB)")
  ELSE Valid

\* the contents fs.readFile may deliver: empty, white space only, over the
\* ceiling, and short or exactly at the ceiling with a document whose front
\* matter is fine, holds a number as title, or is not YAML
NumberTitle == [k \in FmKeys |-> IF k = "title" THEN Num(7) ELSE Undefined]

InputContents ==
  {Content(0, TRUE, FALSE, EmptyFm, <<>>),
   Content(3, TRUE, FALSE, EmptyFm, <<>>),
   Content(MaxContentLength + 1, FALSE, FALSE, TitleOnly, CoverBody)}
  \cup {Content(n, FALSE, FALSE, fm, CoverBody) :
          n \in {3, MaxContentLength}, fm \in {TitleOnly, NumberTitle}}
  \cup {Content(n, FALSE, TRUE, EmptyFm, <<>>) : n \in {3, MaxContentLength}}


(***************************************************************************)
(* The steps of convertMarkdownToPdf before the render                     *)
(***************************************************************************)
\* validateInputFile (converter.ts:104-122)
ValidateInputFile(p) ==
  /\ conv[p].pc = "validateInputFile"
  /\ \E st \in {"file", "directory", "missing"} :
       LET c == Begin(conv[p], "validateInputFile")
       IN conv' = [conv EXCEPT ![p] =
            CASE st = "file" -> [c EXCEPT !.pc = "readFile"]
              [] st = "directory" -> Failed(c, "validateInputFile", "Input path is not a file")
              [] st = "missing" -> Failed(c, "validateInputFile", "Input file not found")]
  /\ UNCHANGED <<browserInstance, browsers, pages, files>>
  /\ UNCHANGED <<docVars, callVars>>

\* fs.readFile (converter.ts:25)
ReadFile(p) ==
  /\ conv[p].pc = "readFile"
  /\ LET c == Begin(conv[p], "readFile")
     IN \/ \E content \in InputContents :
             conv' = [conv EXCEPT ![p] = [c EXCEPT !.pc = "validateMarkdown",
                                                   !.content = content]]
        \/ conv' = [conv EXCEPT ![p] = Failed(c, "readFile", "EACCES: permission denied")]
  /\ UNCHANGED <<browserInstance, browsers, pages, files>>
  /\ UNCHANGED <<docVars, callVars>>

\* converter.ts:28-35
ValidateMarkdown(p) ==
  /\ conv[p].pc = "validateMarkdown"
  /\ LET c == Begin(conv[p], "validateMarkdown")
         validation == validateMarkdown(c.content)
     IN conv' = [conv EXCEPT ![p] =
          IF ~validation.valid
            THEN [c EXCEPT !.pc = "returned", !.result = FailureResult(validation.error)]
            ELSE [c EXCEPT !.pc = "parseMarkdown"]]
  /\ UNCHANGED <<browserInstance, browsers, pages, files>>
  /\ UNCHANGED <<docVars, callVars>>

\* converter.ts:38; gray-matter throws on front matter that is not YAML
Parse(p) ==
  /\ conv[p].pc = "parseMarkdown"
  /\ LET c == Begin(conv[p], "parseMarkdown")
     IN conv' = [conv EXCEPT ![p] =
          IF c.content.malformed
            THEN Failed(c, "parseMarkdown", "YAMLException")
            ELSE [c EXCEPT !.pc = "processCodeBlocks",
                           !.parsed = parseMarkdown(c.content)]]
  /\ UNCHANGED <<browserInstance, browsers, pages, files>>
  /\ UNCHANGED <<docVars, callVars>>

\* themeMap of mapThemeToHighlightTheme (converter.ts:136-141), an object
\* literal: a name it does not hold itself reads as undefined, or as the
\* member inherited from Object.prototype
ThemeMapLookup(theme) ==
  CASE theme = "github" -> "github-light"
    [] theme = "github-dark" -> "github-dark"
    [] theme = "academic" -> "github-light"
    [] theme = "minimal" -> "github-light"
    [] theme \in ObjectPrototypeKeys -> "[object]"
    [] OTHER -> ""

\* themeMap[theme || 'github'] || 'github-dark' (converter.ts:143)
mapThemeToHighlightTheme(theme) ==
  LET found == ThemeMapLookup(IF theme \in {"", NoThemeName} THEN "github" ELSE theme)
  IN IF found = "" THEN "github-dark" ELSE found

\* converter.ts:41-45; the highlighter may fail to load or to render.  The
\* rewritten code blocks are blocks still, so the token sequence stays.
ProcessCodeBlocks(p) ==
  /\ conv[p].pc = "processCodeBlocks"
  /\ LET c == [Begin(conv[p], "processCodeBlocks") EXCEPT
                 !.highlightTheme = mapThemeToHighlightTheme(conv[p].options.theme)]
     IN \/ conv' = [conv EXCEPT ![p] = [c EXCEPT !.pc = "generateHtml"]]
        \/ conv' = [conv EXCEPT ![p] = Failed(c, "processCodeBlocks", "highlighter failed")]
  /\ UNCHANGED <<browserInstance, browsers, pages, files>>
  /\ UNCHANGED <<docVars, callVars>>

\* converter.ts:48-57: the custom CSS read, then generateHtml
Assemble(p) ==
  /\ conv[p].pc = "generateHtml"
  /\ \E cssRead \in BOOLEAN :
       /\ conv[p].options.css = "" => cssRead
       /\ LET c == Begin(conv[p], "generateHtml")
              d == IF cssRead THEN c ELSE Failed(c, "readCss", "ENOENT")
              html == generateHtml(d.parsed, d.options)
          IN conv' = [conv EXCEPT ![p] =
               IF d.pc = "returned" THEN d
               ELSE IF html.kind = "throw"
                 THEN Failed(d, "generateHtml", "text.replace is not a function")
                 ELSE [d EXCEPT !.pc = "mkdir", !.html = html]]
  /\ UNCHANGED <<browserInstance, browsers, pages, files>>
  /\ UNCHANGED <<docVars, callVars>>

\* converter.ts:60-64 (fs.mkdir)
MakeOutputDir(p) ==
  /\ conv[p].pc = "mkdir"
  /\ LET c == Begin(conv[p], "mkdir")
     IN \/ conv' = [conv EXCEPT ![p] = [c EXCEPT !.pc = "getBrowser"]]
        \/ conv' = [conv EXCEPT ![p] = Failed(c, "mkdir", "EACCES: permission denied")]
  /\ UNCHANGED <<browserInstance, browsers, pages, files>>
  /\ UNCHANGED <<docVars, callVars>>

(***************************************************************************)
(* generatePdf (parser.ts:469-526) with getBrowser (parser.ts:441-454)     *)
(***************************************************************************)
Connected(b) == browsers[b] = "open"

\* getBrowser up to its await: the test of line 442
GetBrowser(p) ==
  /\ conv[p].pc = "getBrowser"
  /\ LET c == Begin(conv[p], "generatePdf")
     IN conv' = [conv EXCEPT ![p] =
          IF browserInstance = 0 \/ ~Connected(browserInstance)
            THEN [c EXCEPT !.pc = "launch"]
            ELSE [c EXCEPT !.pc = "newPage", !.browser = browserInstance]]
  /\ UNCHANGED <<browserInstance, browsers, pages, files>>
  /\ UNCHANGED <<docVars, callVars>>

\* puppeteer.launch settles: the assignment of line 443 and the return
Launch(p) ==
  /\ conv[p].pc = "launch"
  /\ \/ /\ browsers' = Append(browsers, "open")
        /\ browserInstance' = Len(browsers) + 1
        /\ conv' = [conv EXCEPT ![p].pc = "newPage", ![p].browser = Len(browsers) + 1]
     \/ /\ conv' = [conv EXCEPT ![p] = Failed(@, "generatePdf", "Failed to launch the browser process")]
        /\ UNCHANGED <<browserInstance, browsers>>
  /\ UNCHANGED <<pages, files>>
  /\ UNCHANGED <<docVars, callVars>>

PageOf(p) == [owner |-> p, browser |-> conv[p].browser]

TimeoutError == "Navigation timeout of 30000 ms exceeded"

TimedOut(p) == conv[p].error = TimeoutError

\* browser.newPage() (line 476), before the try block
NewPage(p) ==
  /\ conv[p].pc = "newPage"
  /\ \/ /\ Connected(conv[p].browser)
        /\ pages' = pages \cup {PageOf(p)}
        /\ conv' = [conv EXCEPT ![p].pc = "setViewport",
                                ![p].afterTimeout = \E q \in Conversions : TimedOut(q)]
     \/ /\ conv' = [conv EXCEPT ![p] = Failed(@, "generatePdf", "Protocol error (Target.createTarget)")]
        /\ UNCHANGED pages
  /\ UNCHANGED <<browserInstance, browsers, files>>
  /\ UNCHANGED <<docVars, callVars>>

\* an error thrown inside the try block: control goes to the finally block
Thrown_InTry(c, error) == [c EXCEPT !.pc = "closePage", !.error = error]

\* page.setViewport and page.emulateMediaType (lines 480-487)
SetViewport(p) ==
  /\ conv[p].pc = "setViewport"
  /\ \/ /\ Connected(conv[p].browser)
        /\ conv' = [conv EXCEPT ![p].pc = "setContent"]
     \/ conv' = [conv EXCEPT ![p] = Thrown_InTry(@, "Protocol error (Emulation.setDeviceMetricsOverride)")]
  /\ UNCHANGED <<browserInstance, browsers, pages, files>>
  /\ UNCHANGED <<docVars, callVars>>

\* page.setContent with its timeout (lines 490-496)
SetContent(p) ==
  /\ conv[p].pc = "setContent"
  /\ \/ /\ Connected(conv[p].browser)
        /\ conv' = [conv EXCEPT ![p].pc = "printPdf"]
     \/ conv' = [conv EXCEPT ![p] = Thrown_InTry(@, TimeoutError)]
  /\ UNCHANGED <<browserInstance, browsers, pages, files>>
  /\ UNCHANGED <<docVars, callVars>>

\* PAGE_FORMATS (src/unnamed/part_002:59-75)
PAGE_FORMATS == {"A4", "Letter", "Legal"}

\* options.format || 'A4' (line 499)
FormatOf(c) == IF c.options.format = "" THEN "A4" ELSE c.options.format

\* lines 498-517: the format lookup, then page.pdf, which opens the file at
\* outputPath for writing and streams the document into it
PrintPdf(p) ==
  /\ conv[p].pc = "printPdf"
  /\ IF FormatOf(conv[p]) \notin PAGE_FORMATS
       THEN /\ conv' = [conv EXCEPT ![p] =
                 Thrown_InTry(@, "Cannot read properties of undefined (reading 'margin')")]
            /\ UNCHANGED files
       ELSE \/ /\ Connected(conv[p].browser)
               /\ files' = [files EXCEPT ![p] = "rendered"]
               /\ conv' = [conv EXCEPT ![p].pc = "closePage"]
            \/ /\ conv' = [conv EXCEPT ![p] = Thrown_InTry(@, "Protocol error (Page.printToPDF)")]
               /\ UNCHANGED files
            \/ /\ files' = [files EXCEPT ![p] = "partial"]
               /\ conv' = [conv EXCEPT ![p] = Thrown_InTry(@, "ENOSPC: no space left on device")]
  /\ UNCHANGED <<browserInstance, browsers, pages>>
  /\ UNCHANGED <<docVars, callVars>>

\* (a variant: the page is closed only when nothing was thrown)
AfterFinally_OnSuccessOnly(pgs, c, page) == IF c.error = "" THEN pgs \ {page} ELSE pgs

\* (a variant: the page is left open after a timeout)
AfterFinally_NotOnTimeout(pgs, c, page) == IF c.error = TimeoutError THEN pgs ELSE pgs \ {page}

\* the open pages after the finally block, page.close() (lines 523-525)
AfterFinally(pgs, c, page) == pgs \ {page}

\* the finally block; an error thrown in the try block then reaches the
\* catch of convertMarkdownToPdf, and so does the error of page.close()
\* when the browser of the page is gone
ClosePage(p) ==
  /\ conv[p].pc = "closePage"
  /\ pages' = AfterFinally(pages, conv[p], PageOf(p))
  /\ conv' = [conv EXCEPT ![p] =
       IF @.error # "" THEN Failed(@, "generatePdf", @.error)
       ELSE IF ~Connected(@.browser)
         THEN Failed(@, "generatePdf", "Protocol error: Connection closed")
       ELSE [@ EXCEPT !.pc = "addMetadata"]]
  /\ UNCHANGED <<browserInstance, browsers, files>>
  /\ UNCHANGED <<docVars, callVars>>

(***************************************************************************)
(* post-processing (pdf-postprocess.ts:50-102, converter.ts:70-90)         *)
(***************************************************************************)
\* addMetadata reads the PDF, sets the fields and writes it back
AddMetadata(p) ==
  /\ conv[p].pc = "addMetadata"
  /\ LET c == [Begin(conv[p], "addMetadata") EXCEPT !.pc = "getPdfStats"]
     IN \/ /\ files' = [files EXCEPT ![p] = "tagged"]
           /\ conv' = [conv EXCEPT ![p] = c]
        \/ /\ UNCHANGED files
           /\ conv' = [conv EXCEPT ![p] = Failed(c, "addMetadata", "Failed to parse PDF document")]
        \/ /\ files' = [files EXCEPT ![p] = "partial"]
           /\ conv' = [conv EXCEPT ![p] = Failed(c, "addMetadata", "ENOSPC: no space left on device")]
  /\ UNCHANGED <<browserInstance, browsers, pages>>
  /\ UNCHANGED <<docVars, callVars>>

\* (a variant: unreadable statistics are reported as unknown)
NoPdfStats_Unknown == [pages |-> -1, size |-> -1]

\* the catch of getPdfStats (pdf-postprocess.ts:96-101)
NoPdfStats == [pages |-> 0, size |-> 0]

\* getPdfStats, then the return of lines 82-90
GetPdfStats(p) ==
  /\ conv[p].pc = "getPdfStats"
  /\ \E readable \in BOOLEAN :
       LET c == Begin(conv[p], "getPdfStats")
           ok == readable /\ files[p] # "partial"
           d == IF ok THEN c ELSE Failed(c, "getPdfStats", "Failed to parse PDF document")
           stats == IF ok THEN [pages |-> 1, size |-> 1] ELSE NoPdfStats
       IN conv' = [conv EXCEPT ![p] =
            IF d.pc = "returned" THEN d
            ELSE [d EXCEPT !.pc = "returned", !.result = SuccessResult(OutputPathOf(d), stats)]]
  /\ UNCHANGED <<browserInstance, browsers, pages, files>>
  /\ UNCHANGED <<docVars, callVars>>

(***************************************************************************)
(* Specifications of the conversions                                       *)
(***************************************************************************)
PdfOptionsOf(formats, outputs, csss) ==
  [toc : {TRUE}, theme : {"github"}, format : formats, output : outputs, css : csss,
   highlightTheme : {""}]

\* the call record when convertMarkdownToPdf(options) is entered
NewConversion(opts) ==
  [pc |-> "validateInputFile", options |-> opts, content |-> NoContent,
   parsed |-> None, html |-> None, browser |-> 0, error |-> "", warnings |-> {},
   log |-> <<>>, afterTimeout |-> FALSE, highlightTheme |-> "", result |-> Pending]

NoDocRun ==
  /\ pc = "convert"
  /\ input = None
  /\ parsed = None
  /\ options = None
  /\ result = None

\* Specification SpecConv: one call of convertMarkdownToPdf from its entry,
\* in a process that has no browser yet or holds one from an earlier call.
ConvOptions == PdfOptionsOf({"", "Letter", "A3"}, {"", "out.pdf"}, {"", "custom.css"})

InitConv ==
  /\ NoDocRun
  /\ NoCalls
  /\ conv \in {<<NewConversion(o)>> : o \in ConvOptions}
  /\ \/ browserInstance = 0 /\ browsers = <<>>
     \/ browserInstance = 1 /\ browsers = <<"open">>
  /\ pages = {}
  /\ files = <<"absent">>

NextConv ==
  \E p \in 1..1 :
    \/ ValidateInputFile(p)
    \/ ReadFile(p)
    \/ ValidateMarkdown(p)
    \/ Parse(p)
    \/ ProcessCodeBlocks(p)
    \/ Assemble(p)
    \/ MakeOutputDir(p)
    \/ GetBrowser(p)
    \/ Launch(p)
    \/ NewPage(p)
    \/ SetViewport(p)
    \/ SetContent(p)
    \/ PrintPdf(p)
    \/ ClosePage(p)
    \/ AddMetadata(p)
    \/ GetPdfStats(p)

SpecConv == InitConv /\ [][NextConv]_vars

\* Specification SpecRender: NumConversions calls that were started together
\* in a process without a browser and have each come to their generatePdf.
\* The calls are interchangeable, so they are numbered in the order of their
\* formats.
RenderOptions == PdfOptionsOf({"", "A3"}, {""}, {""})

PreRenderLog ==
  <<"validateInputFile", "readFile", "validateMarkdown", "parseMarkdown",
    "processCodeBlocks", "generateHtml", "mkdir">>

ReadyToRender(opts) ==
  LET content == Content(3, FALSE, FALSE, TitleOnly, CoverBody)
      p == parseMarkdown(content)
  IN [NewConversion(opts) EXCEPT !.pc = "getBrowser", !.content = content,
                                 !.parsed = p, !.html = generateHtml(p, opts),
                                 !.log = PreRenderLog]

InitRender ==
  /\ NoDocRun
  /\ NoCalls
  /\ conv \in {c \in [1..NumConversions -> {ReadyToRender(o) : o \in RenderOptions}] :
                  \A p, q \in 1..NumConversions :
                    p < q /\ c[p].options.format # "" => c[q].options.format # ""}
  /\ browserInstance = 0
  /\ browsers = <<>>
  /\ pages = {}
  /\ files = [p \in 1..NumConversions |-> "absent"]

NextRender ==
  \E p \in 1..NumConversions :
    \/ GetBrowser(p)
    \/ Launch(p)
    \/ NewPage(p)
    \/ SetViewport(p)
    \/ SetContent(p)
    \/ PrintPdf(p)
    \/ ClosePage(p)
    \/ AddMetadata(p)
    \/ GetPdfStats(p)

SpecRender == InitRender /\ [][NextRender]_vars

(***************************************************************************)
(* Claims about the conversions                                            *)
(***************************************************************************)
Returned(p) == conv[p].pc = "returned"
Ran(p, step) == step \in Range(conv[p].log)

(***************************************************************************)
(* C14  convertMarkdownToPdf never rejects: a call that has ended has      *)
(* resolved with a result; a failure carries success=false, an error       *)
(* message, an empty outputPath and no stats, and a success carries a      *)
(* non-empty outputPath and stats.  Until it ends a call has no result.    *)
(***************************************************************************)
C14_ResolvesWellFormed ==
  \A p \in Conversions :
    LET r == conv[p].result
    IN IF Returned(p)
         THEN IF r.success
                THEN r.outputPath # "" /\ r.stats # NoStats /\ r.error = ""
                ELSE r.error # "" /\ r.outputPath = "" /\ r.stats = NoStats
         ELSE r = Pending

C14_Witness ==
  \E p \in Conversions :
    /\ Returned(p)
    /\ ~conv[p].result.success
    /\ Ran(p, "generatePdf")
    /\ conv[p].options.output # ""

(***************************************************************************)
(* C15  Whenever a conversion ends in failure, it has neither created nor  *)
(* changed a file at its final output path.                                *)
(***************************************************************************)
C15_NoFileLeftOnFailure ==
  \A p \in Conversions :
    Returned(p) /\ ~conv[p].result.success => files[p] = "absent"

(***************************************************************************)
(* C16  The stages of one conversion run strictly in order, a failure in   *)
(* any stage leads to Failed and no later stage runs, and Done and Failed  *)
(* are terminal.                                                           *)
(***************************************************************************)
StepOrder ==
  <<"validateInputFile", "readFile", "validateMarkdown",   \* validate
    "parseMarkdown",                                       \* parse
    "processCodeBlocks",                                   \* highlight
    "generateHtml", "mkdir",                               \* section/assemble
    "generatePdf",                                         \* render
    "addMetadata", "getPdfStats">>                         \* post-process

IsPrefix(s, t) == Len(s) <= Len(t) /\ s = SubSeq(t, 1, Len(s))

InOrder(p) == IsPrefix(conv[p].log, StepOrder)

PostProcessFailed(p) == conv[p].warnings \cap {"addMetadata", "getPdfStats"} # {}

\* the claim as it stands, on the runs in which post-processing failed
C16_AnyStageFailureLeadsToFailed ==
  \A p \in Conversions :
    /\ InOrder(p)
    /\ Returned(p) /\ PostProcessFailed(p) => ~conv[p].result.success

StaysAsEnded(p) == Returned(p) => conv'[p] = conv[p]

\* C16 (amended)  The stages of one conversion run strictly in order; a
\* failure in validate, parse, highlight, section/assemble or render ends
\* the conversion in Failed at that stage, so that no later stage runs; a
\* failure in post-processing (or of the custom CSS read) is only a warning
\* and the conversion still ends in Done, having run every stage; Done and
\* Failed are terminal.
C16_FatalStagesStopTheRun ==
  /\ [](\A p \in Conversions :
          /\ InOrder(p)
          /\ conv[p].warnings \subseteq {"readCss", "addMetadata", "getPdfStats"}
          /\ Returned(p) /\ conv[p].result.success => conv[p].log = StepOrder
          /\ Returned(p) /\ PostProcessFailed(p) => conv[p].result.success
          /\ ~conv[p].result.success /\ Returned(p) =>
               conv[p].log # StepOrder /\ ~PostProcessFailed(p))
  /\ [][\A p \in Conversions : StaysAsEnded(p)]_vars

C16_Witness ==
  \E p \in Conversions :
    /\ Returned(p)
    /\ conv[p].result.success
    /\ conv[p].warnings = {"addMetadata", "getPdfStats"}

(***************************************************************************)
(* C17  A content that is empty or white space only, or longer than the    *)
(* 10 MB ceiling, is refused with a failure result before parseMarkdown is *)
(* called; a content of exactly 10*1024*1024 is accepted.                  *)
(***************************************************************************)
C17_RefusedBeforeParsing ==
  \A p \in Conversions :
    LET c == conv[p]
    IN Ran(p, "validateMarkdown") =>
         /\ (c.content.length = 0 \/ c.content.blank
               \/ c.content.length > 10 * 1024 * 1024) =>
              /\ Returned(p)
              /\ ~c.result.success
              /\ c.result.error # ""
              /\ ~Ran(p, "parseMarkdown")
         /\ (c.content.length = 10 * 1024 * 1024 /\ ~c.content.blank) =>
              /\ c.log = <<"validateInputFile", "readFile", "validateMarkdown">> =>
                   c.pc = "parseMarkdown"

C17_Witness ==
  \E p \in Conversions :
    /\ conv[p].content.length = 10 * 1024 * 1024
    /\ Ran(p, "parseMarkdown")
    /\ Returned(p)
    /\ conv[p].result.success

(***************************************************************************)
(* C18  For any interleaving of conversions the renderer is launched once  *)
(* and every conversion uses that instance: at most one launched browser   *)
(* is alive, and every browser that is open is the one browserInstance     *)
(* refers to.                                                              *)
(***************************************************************************)
OpenBrowsers == {b \in 1..Len(browsers) : browsers[b] = "open"}

C18_OneBrowserAlwaysReferenced ==
  /\ Cardinality(OpenBrowsers) <= 1
  /\ \A b \in OpenBrowsers : browserInstance = b
  /\ \A p, q \in Conversions :
       conv[p].browser # 0 /\ conv[q].browser # 0 => conv[p].browser = conv[q].browser

(***************************************************************************)
(* C19  Every page generatePdf opens is closed before generatePdf returns  *)
(* or throws, whatever step fails after the page was opened; once all      *)
(* conversions have finished no page remains open.                         *)
(***************************************************************************)
InsideTry == {"setViewport", "setContent", "printPdf", "closePage"}

C19_PagesClosedOnEveryPath ==
  /\ \A pg \in pages : conv[pg.owner].pc \in InsideTry /\ pg = PageOf(pg.owner)
  /\ (\A p \in Conversions : Returned(p)) => pages = {}

C19_Witness ==
  /\ \A p \in Conversions : Returned(p)
  /\ pages = {}
  /\ \E p, q \in Conversions :
       /\ conv[p].error = TimeoutError
       /\ conv[q].error = "Cannot read properties of undefined (reading 'margin')"

(***************************************************************************)
(* C20  A render timeout in one conversion makes only that conversion      *)
(* resolve with success=false: its page is closed, the browser stays open  *)
(* and referenced as it was, and the other conversions are left as they    *)
(* are and can still complete.                                             *)
(***************************************************************************)
TimeoutLeavesTheRestAlone(p) ==
  TimedOut(p)' /\ conv'[p] # conv[p] =>
    /\ browsers' = browsers
    /\ browserInstance' = browserInstance
    /\ \A q \in Conversions \ {p} : conv'[q] = conv[q]

C20_TimeoutFailsOnlyItsConversion ==
  /\ [](\A p \in Conversions :
          TimedOut(p) =>
            /\ conv[p].pc \in {"closePage", "returned"}
            /\ browsers[conv[p].browser] = "open"
            /\ Returned(p) => ~conv[p].result.success /\ PageOf(p) \notin pages)
  /\ [][\A p \in Conversions : TimeoutLeavesTheRestAlone(p)]_vars

C20_Witness ==
  \E p, q \in Conversions :
    /\ Returned(p) /\ TimedOut(p)
    /\ Returned(q) /\ conv[q].result.success
    /\ conv[q].afterTimeout
    /\ conv[q].browser = conv[p].browser
    /\ browserInstance = conv[p].browser
    /\ browsers[browserInstance] = "open"

(***************************************************************************)
(* cleanup (converter.ts:149-151) and closeBrowser (parser.ts:459-464).    *)
(* A call of cleanup() is a record: where it is, the browser whose close() *)
(* it awaits, and how it settled.  closeBrowser is three steps: the test   *)
(* and the call of close(); the browser going away; the continuation       *)
(* after the await, which clears browserInstance.                          *)
(***************************************************************************)
NumCleanups == 2    \* calls of cleanup()

Cleanups == DOMAIN cleanups

NewCleanup == [pc |-> "closeBrowser", target |-> 0]

\* (a variant: close() is called whether or not there is a browser)
HasBrowser_Always(instance) == TRUE

\* the test of line 460
HasBrowser(instance) == instance # 0

\* lines 460-461 up to the await; close() of null is a TypeError
CloseBrowser(k) ==
  /\ cleanups[k].pc = "closeBrowser"
  /\ cleanups' = [cleanups EXCEPT ![k] =
       IF ~HasBrowser(browserInstance) THEN [@ EXCEPT !.pc = "resolved"]
       ELSE IF browserInstance = 0 THEN [@ EXCEPT !.pc = "rejected"]
       ELSE [@ EXCEPT !.pc = "closing", !.target = browserInstance]]
  /\ UNCHANGED <<docVars, procVars, cli, p2m, marked>>

\* the browser process ends: it is disconnected and its pages are gone
BrowserClosed(k) ==
  /\ cleanups[k].pc = "closing"
  /\ browsers' = [browsers EXCEPT ![cleanups[k].target] = "closed"]
  /\ pages' = {pg \in pages : pg.browser # cleanups[k].target}
  /\ cleanups' = [cleanups EXCEPT ![k].pc = "closed"]
  /\ UNCHANGED <<conv, browserInstance, files>>
  /\ UNCHANGED <<docVars, cli, p2m, marked>>

\* the await of line 461 resumes: line 462, and cleanup() resolves
ClearBrowserInstance(k) ==
  /\ cleanups[k].pc = "closed"
  /\ browserInstance' = 0
  /\ cleanups' = [cleanups EXCEPT ![k].pc = "resolved"]
  /\ UNCHANGED <<conv, browsers, pages, files>>
  /\ UNCHANGED <<docVars, cli, p2m, marked>>

\* A caller that awaits each call before it makes the next one: a call is
\* made when no other call is in flight.
InFlight ==
  \/ \E p \in Conversions : conv[p].pc \notin {"waiting", "returned"}
  \/ \E k \in Cleanups : cleanups[k].pc \notin {"waiting", "resolved", "rejected"}

\* await convertMarkdownToPdf(options), taken from its generatePdf: the
\* steps before it do not touch the browser
CallConvert(p) ==
  /\ conv[p].pc = "waiting"
  /\ ~InFlight
  /\ conv' = [conv EXCEPT ![p].pc = "getBrowser"]
  /\ UNCHANGED <<browserInstance, browsers, pages, files>>
  /\ UNCHANGED <<docVars, callVars>>

\* await cleanup()
CallCleanup(k) ==
  /\ cleanups[k].pc = "waiting"
  /\ ~InFlight
  /\ cleanups' = [cleanups EXCEPT ![k].pc = "closeBrowser"]
  /\ UNCHANGED <<docVars, procVars, cli, p2m, marked>>

\* Specification SpecCleanup: a process that converts NumConversions
\* documents and calls cleanup() NumCleanups times, one call after the
\* other in any order.
PlainOptions == PdfOptionsOf({""}, {""}, {""})

InitCleanup ==
  /\ NoDocRun
  /\ conv \in [1..NumConversions -> {[ReadyToRender(o) EXCEPT !.pc = "waiting"] : o \in PlainOptions}]
  /\ browserInstance = 0
  /\ browsers = <<>>
  /\ pages = {}
  /\ files = [p \in 1..NumConversions |-> "absent"]
  /\ cleanups = [k \in 1..NumCleanups |-> [NewCleanup EXCEPT !.pc = "waiting"]]
  /\ cli = None
  /\ p2m = None
  /\ marked = <<>>

NextCleanup ==
  \/ \E p \in 1..NumConversions :
       \/ CallConvert(p)
       \/ GetBrowser(p)
       \/ Launch(p)
       \/ NewPage(p)
       \/ SetViewport(p)
       \/ SetContent(p)
       \/ PrintPdf(p)
       \/ ClosePage(p)
       \/ AddMetadata(p)
       \/ GetPdfStats(p)
  \/ \E k \in 1..NumCleanups :
       \/ CallCleanup(k)
       \/ CloseBrowser(k)
       \/ BrowserClosed(k)
       \/ ClearBrowserInstance(k)

SpecCleanup == InitCleanup /\ [][NextCleanup]_vars

(***************************************************************************)
(* C21  The shared browser is held across conversions and is closed only   *)
(* by a call of cleanup(): a step of a conversion never closes a browser   *)
(* and never drops a connected browserInstance.  cleanup() with no browser *)
(* resolves and changes nothing.  When cleanup() resolves there is no      *)
(* browserInstance, and the next conversion launches a browser that did    *)
(* not exist before, which becomes browserInstance.                        *)
(***************************************************************************)
ConversionStepKeepsBrowser ==
  cleanups' = cleanups =>
    /\ \A b \in DOMAIN browsers : browsers'[b] = browsers[b]
    /\ browserInstance # 0 /\ Connected(browserInstance) => browserInstance' = browserInstance

CleanupWithoutBrowserIsNoOp ==
  \A k \in Cleanups :
    cleanups[k].pc = "closeBrowser" /\ cleanups'[k] # cleanups[k] /\ browserInstance = 0 =>
      /\ cleanups'[k].pc = "resolved"
      /\ procVars' = procVars

FreshBrowserAfterCleanup ==
  /\ \A k \in Cleanups :
       cleanups[k].pc # "resolved" /\ cleanups'[k].pc = "resolved" => browserInstance' = 0
  /\ \A p \in Conversions :
       /\ conv[p].pc = "getBrowser" /\ conv'[p] # conv[p] /\ browserInstance = 0 =>
            conv'[p].pc = "launch"
       /\ conv[p].pc = "launch" /\ conv'[p].pc = "newPage" =>
            /\ conv'[p].browser \notin DOMAIN browsers
            /\ browsers'[conv'[p].browser] = "open"
            /\ browserInstance' = conv'[p].browser

C21_BrowserHeldUntilCleanup ==
  /\ [](\A k \in Cleanups : cleanups[k].pc # "rejected")
  /\ [][ConversionStepKeepsBrowser /\ CleanupWithoutBrowserIsNoOp /\ FreshBrowserAfterCleanup]_vars

\* cleanup() without a browser, a conversion, cleanup(), a conversion
C21_Witness ==
  /\ browsers = <<"closed", "open">>
  /\ browserInstance = 2
  /\ \E k, l \in Cleanups :
       /\ cleanups[k].pc = "resolved" /\ cleanups[k].target = 0
       /\ cleanups[l].pc = "resolved" /\ cleanups[l].target = 1
  /\ \E p, q \in Conversions :
       /\ Returned(p) /\ conv[p].result.success /\ conv[p].browser = 1
       /\ Returned(q) /\ conv[q].result.success /\ conv[q].browser = 2

(***************************************************************************)
(* Specification SpecShutdown: one conversion at its generatePdf and       *)
(* NumCleanups calls of cleanup(), all in flight together, in a process    *)
(* that holds a browser from an earlier conversion or none.                *)
(***************************************************************************)
InitShutdown ==
  /\ NoDocRun
  /\ conv \in {<<ReadyToRender(o)>> : o \in PlainOptions}
  /\ \/ browserInstance = 0 /\ browsers = <<>>
     \/ browserInstance = 1 /\ browsers = <<"open">>
  /\ pages = {}
  /\ files = <<"absent">>
  /\ cleanups = [k \in 1..NumCleanups |-> NewCleanup]
  /\ cli = None
  /\ p2m = None
  /\ marked = <<>>

NextShutdown ==
  \/ \E p \in 1..1 :
       \/ GetBrowser(p)
       \/ Launch(p)
       \/ NewPage(p)
       \/ SetViewport(p)
       \/ SetContent(p)
       \/ PrintPdf(p)
       \/ ClosePage(p)
       \/ AddMetadata(p)
       \/ GetPdfStats(p)
  \/ \E k \in 1..NumCleanups :
       \/ CloseBrowser(k)
       \/ BrowserClosed(k)
       \/ ClearBrowserInstance(k)

SpecShutdown == InitShutdown /\ [][NextShutdown]_vars

(***************************************************************************)
(* C27  cleanup() in flight together with a conversion leaks no browser:   *)
(* closeBrowser clears browserInstance only when it refers to the browser  *)
(* it closed, and once every cleanup() has resolved and every conversion   *)
(* has returned, each browser launched is closed or is browserInstance.    *)
(***************************************************************************)
Settled ==
  /\ \A k \in Cleanups : cleanups[k].pc = "resolved"
  /\ \A p \in Conversions : Returned(p)

C27_NoBrowserLeakedByCleanup ==
  /\ \A k \in Cleanups :
       cleanups[k].pc = "closed" => browserInstance \in {0, cleanups[k].target}
  /\ Settled => \A b \in OpenBrowsers : browserInstance = b

(***************************************************************************)
(* C22  Once the document has been rendered, a failure to write the        *)
(* metadata or to read the statistics does not fail the conversion: it     *)
(* resolves with success=true and the output path, and when the statistics *)
(* could not be read they are pages=0 and size=0.                          *)
(***************************************************************************)
C22_PostProcessFailuresOnlyWarn ==
  \A p \in Conversions :
    Returned(p) /\ Ran(p, "addMetadata") =>
      /\ conv[p].result.success
      /\ conv[p].result.outputPath = OutputPathOf(conv[p])
      /\ conv[p].result.error = ""
      /\ "getPdfStats" \in conv[p].warnings =>
           conv[p].result.stats = <<[pages |-> 0, size |-> 0]>>

C22_Witness ==
  \E p \in Conversions :
    /\ Returned(p)
    /\ conv[p].warnings = {"addMetadata", "getPdfStats"}
    /\ files[p] = "partial"
    /\ conv[p].result.success

(***************************************************************************)
(* C23  A document whose front matter is malformed is converted as if its  *)
(* front matter were empty: parseMarkdown yields a document with empty     *)
(* front matter, the conversion goes on to the next stage, and it does not *)
(* resolve with the front-matter parser's error.                           *)
(***************************************************************************)
C23_MalformedFrontMatterTreatedAsEmpty ==
  \A p \in Conversions :
    conv[p].content.malformed /\ Ran(p, "parseMarkdown") =>
      /\ conv[p].parsed # None
      /\ conv[p].parsed.frontMatter = EmptyFm
      /\ Returned(p) => conv[p].result.error # "YAMLException"

(***************************************************************************)
(* Specification SpecHighlight: one call of convertMarkdownToPdf for each  *)
(* document theme and each highlight theme, the option left out included.  *)
(***************************************************************************)
HighlightOptions ==
  [toc : {TRUE}, theme : {"", "github", "github-dark", "academic"}, format : {""},
   output : {""}, css : {""}, highlightTheme : {"", "github-dark", "dracula"}]

InitHighlight ==
  /\ NoDocRun
  /\ NoCalls
  /\ conv \in {<<NewConversion(o)>> : o \in HighlightOptions}
  /\ browserInstance = 0
  /\ browsers = <<>>
  /\ pages = {}
  /\ files = <<"absent">>

SpecHighlight == InitHighlight /\ [][NextConv]_vars

(***************************************************************************)
(* C24  The highlight theme handed to the highlighter is the one asked for *)
(* in options.highlightTheme, github-dark when none was asked for,         *)
(* whatever the document theme is.                                         *)
(***************************************************************************)
\* processCodeBlocks' default parameter (src/unnamed/part_001:275) and the
\* default of --highlight-theme (parser.ts:128)
RequestedHighlightTheme(opts) ==
  IF opts.highlightTheme = "" THEN "github-dark" ELSE opts.highlightTheme

C24_HighlightThemeIsTheRequestedOne ==
  \A p \in Conversions :
    Ran(p, "processCodeBlocks") =>
      conv[p].highlightTheme = RequestedHighlightTheme(conv[p].options)

(***************************************************************************)
(* convertPdfToMarkdown (src/unnamed/part_003:34-217) and the vision       *)
(* server.  A model name is the sequence of its colon-separated parts.  A  *)
(* call is a record: the server (reachable, the models it holds), the      *)
(* file, the model asked for, the page images made, the images sent to the *)
(* model, the pages done and the output file.                              *)
(***************************************************************************)
MaxPages == 2    \* pages of the PDF

ModelNotFound == "Model not found. Please run: ollama pull"

PendingMd == [success |-> FALSE, outputPath |-> "", error |-> ""]

\* the return of lines 204-208
MdSuccess == [success |-> TRUE, outputPath |-> "doc.md", error |-> ""]

\* the returns of lines 74-78 and 211-215
MdFailure(error) == [success |-> FALSE, outputPath |-> "", error |-> error]

NewPdfCall(reachable, models, model, file, numPages) ==
  [pc |-> "waiting", reachable |-> reachable, models |-> models, model |-> model,
   file |-> file, numPages |-> numPages, images |-> 0, sent |-> 0, done |-> 0,
   failedPages |-> 0, output |-> "absent", result |-> PendingMd]

MdReturn(c, res) == [c EXCEPT !.pc = "returned", !.result = res]

\* (a variant: every model is taken to be there)
ShowSucceeds_Always(c, name) == TRUE

\* ollama.show({ model }) resolves when the server answers and holds the model
ShowSucceeds(c, name) == c.reachable /\ name \in c.models

\* lines 54-59
ModelVariations(model) ==
  <<Append(model, "latest"), Append(model, "7b"), Append(model, "13b"), model>>

\* lines 50-72: the model to use, <<>> when none was found
FindModel(c) ==
  IF ShowSucceeds(c, c.model) THEN c.model
  ELSE LET found == {i \in 1..4 : ShowSucceeds(c, ModelVariations(c.model)[i])}
       IN IF found = {} THEN <<>> ELSE ModelVariations(c.model)[MinOf(found)]

\* validatePdfFile (lines 297-320), called at line 40
ValidatePdfFile ==
  /\ p2m.pc = "validatePdfFile"
  /\ p2m' = CASE p2m.file = "missing" -> MdReturn(p2m, MdFailure("PDF file not found"))
              [] p2m.file = "tooLarge" -> MdReturn(p2m, MdFailure("PDF file too large (max 50MB)"))
              [] OTHER -> [p2m EXCEPT !.pc = "show"]
  /\ UNCHANGED <<docVars, procVars, cleanups, cli, marked>>

\* lines 47-80
ShowModel ==
  /\ p2m.pc = "show"
  /\ p2m' = IF FindModel(p2m) = <<>>
              THEN MdReturn(p2m, MdFailure(ModelNotFound))
              ELSE [p2m EXCEPT !.pc = "bulk", !.model = FindModel(p2m)]
  /\ UNCHANGED <<docVars, procVars, cleanups, cli, marked>>

\* lines 87-96: converter.bulk(-1) makes an image of every page, or throws
Bulk ==
  /\ p2m.pc = "bulk"
  /\ \/ p2m' = [p2m EXCEPT !.pc = "page", !.images = p2m.numPages]
     \/ p2m' = MdReturn(p2m, MdFailure("bulk: could not execute GraphicsMagick"))
  /\ UNCHANGED <<docVars, procVars, cleanups, cli, marked>>

\* one round of the loop of lines 105-189: a page without image data is
\* skipped with a comment; otherwise the image is sent to the model, and a
\* failure of that is caught and leaves a comment too
ProcessPage ==
  /\ p2m.pc = "page"
  /\ p2m.done < p2m.images
  /\ \/ p2m' = [p2m EXCEPT !.done = @ + 1, !.failedPages = @ + 1]
     \/ /\ p2m.reachable
        /\ p2m' = [p2m EXCEPT !.done = @ + 1, !.sent = @ + 1]
     \/ p2m' = [p2m EXCEPT !.done = @ + 1, !.sent = @ + 1, !.failedPages = @ + 1]
  /\ UNCHANGED <<docVars, procVars, cleanups, cli, marked>>

\* lines 192-208: the pages are combined and written, or the write throws
WriteMarkdown ==
  /\ p2m.pc = "page"
  /\ p2m.done = p2m.images
  /\ \/ p2m' = MdReturn([p2m EXCEPT !.output = "written"], MdSuccess)
     \/ p2m' = MdReturn(p2m, MdFailure("EACCES: permission denied"))
  /\ UNCHANGED <<docVars, procVars, cleanups, cli, marked>>

\* the vision server goes away
ServerStops ==
  /\ p2m.pc # "returned"
  /\ p2m.reachable
  /\ p2m' = [p2m EXCEPT !.reachable = FALSE]
  /\ UNCHANGED <<docVars, procVars, cleanups, cli, marked>>

(***************************************************************************)
(* The command line (parser.ts:88-430): the default command, which picks   *)
(* the handler by the extension of the input, handleMarkdownToPdf and      *)
(* handlePdfToMarkdown.  The process is a record: where it is, the input's *)
(* extension, the options given, and the exit code once it has exited.     *)
(* process.exit(code) ends the process at once: no finally block that is   *)
(* pending runs after it.  A handler that returns lets the process end     *)
(* with code 0.                                                            *)
(***************************************************************************)
NewProcess(ext, theme, highlightTheme) ==
  [pc |-> "action", ext |-> ext, theme |-> theme, highlightTheme |-> highlightTheme,
   exitCode |-> 0, message |-> ""]

\* process.exit(code) after the message was printed
Exit(c, code, message) == [c EXCEPT !.pc = "exited", !.exitCode = code, !.message = message]

Exited == cli.pc = "exited"

\* (a variant: one more name passes the theme check)
getAvailableThemes_AndNeon == OwnThemeKeys \cup {"neon"}

\* getAvailableThemes (themes.ts:577-579): the keys of themes
getAvailableThemes == OwnThemeKeys

\* the default command's action (lines 133-157)
Action ==
  /\ cli.pc = "action"
  /\ cli' = CASE cli.ext = ".pdf" -> [cli EXCEPT !.pc = "checkOllamaConnection"]
              [] cli.ext \in {".md", ".markdown"} -> [cli EXCEPT !.pc = "validateTheme"]
              [] OTHER -> Exit(cli, 1, "Unsupported file type")
  /\ UNCHANGED <<docVars, procVars, cleanups, p2m, marked>>

\* handleMarkdownToPdf, lines 204-225: the options, the theme check and the
\* call of convertMarkdownToPdf
ValidateTheme ==
  /\ cli.pc = "validateTheme"
  /\ IF (IF cli.theme = "" THEN "github" ELSE cli.theme) \notin getAvailableThemes
       THEN /\ cli' = Exit(cli, 1, "Invalid theme")
            /\ UNCHANGED conv
       ELSE /\ cli' = [cli EXCEPT !.pc = "convertMarkdownToPdf"]
            /\ conv' = <<NewConversion([toc |-> TRUE, theme |-> cli.theme, format |-> "A4",
                                        output |-> "", css |-> "",
                                        highlightTheme |-> cli.highlightTheme])>>
  /\ UNCHANGED <<browserInstance, browsers, pages, files>>
  /\ UNCHANGED <<docVars, cleanups, p2m, marked>>

\* lines 225-242: the await resumes with the result
MarkdownResult ==
  /\ cli.pc = "convertMarkdownToPdf"
  /\ conv[1].pc = "returned"
  /\ cli' = IF conv[1].result.success
              THEN [cli EXCEPT !.pc = "finally"]
              ELSE Exit(cli, 1, "Failed to generate PDF")
  /\ UNCHANGED <<docVars, procVars, cleanups, p2m, marked>>

\* lines 248-250: await cleanup()
Finally ==
  /\ cli.pc = "finally"
  /\ cli' = [cli EXCEPT !.pc = "cleanup"]
  /\ cleanups' = <<NewCleanup>>
  /\ UNCHANGED <<docVars, procVars, p2m, marked>>

\* cleanup() has resolved, the handler returns and the process ends
HandlerReturns ==
  /\ cli.pc = "cleanup"
  /\ cleanups[1].pc = "resolved"
  /\ cli' = Exit(cli, 0, "")
  /\ UNCHANGED <<docVars, procVars, cleanups, p2m, marked>>

\* handlePdfToMarkdown, lines 260-274, with checkOllamaConnection
\* (src/unnamed/part_003:325-333)
CheckOllamaConnection ==
  /\ cli.pc = "checkOllamaConnection"
  /\ cli' = IF p2m.reachable
              THEN [cli EXCEPT !.pc = "listVisionModels"]
              ELSE Exit(cli, 1, "Ollama is not running")
  /\ UNCHANGED <<docVars, procVars, cleanups, p2m, marked>>

\* the names listVisionModels keeps (src/unnamed/part_003:344-350)
IsVisionModel(name) == name[1] \in {"llava", "bakllava", "llama3.2-vision"}

\* listVisionModels (src/unnamed/part_003:338-355): [] when the server fails
listVisionModels(c) == IF c.reachable THEN {m \in c.models : IsVisionModel(m)} ELSE {}

\* lines 277-303: the model list, the options and the call
ListVisionModels ==
  /\ cli.pc = "listVisionModels"
  /\ IF listVisionModels(p2m) = {}
       THEN /\ cli' = Exit(cli, 1, "No vision models found")
            /\ UNCHANGED p2m
       ELSE /\ cli' = [cli EXCEPT !.pc = "convertPdfToMarkdown"]
            /\ p2m' = [p2m EXCEPT !.pc = "validatePdfFile"]
  /\ UNCHANGED <<docVars, procVars, cleanups, marked>>

\* lines 317-332: the await resumes with the result
PdfResult ==
  /\ cli.pc = "convertPdfToMarkdown"
  /\ p2m.pc = "returned"
  /\ cli' = IF p2m.result.success
              THEN Exit(cli, 0, "")
              ELSE Exit(cli, 1, "Failed to convert PDF")
  /\ UNCHANGED <<docVars, procVars, cleanups, p2m, marked>>

\* Specification SpecCli: one run of the command with an input file of
\* each kind, in front of each vision server.
ModelNames == {<<"llava">>, <<"llava", "13b">>, <<"llama3.2-vision">>, <<"mistral">>}

PdfCalls ==
  {NewPdfCall(r, ms, m, f, n) :
     r \in BOOLEAN, ms \in {{}, {<<"mistral">>}, {<<"llava", "13b">>}, {<<"llama3.2-vision">>}},
     m \in {<<"llava">>}, f \in {"ok", "missing"}, n \in {MaxPages}}

InitCli ==
  /\ NoDocRun
  /\ \/ /\ cli \in {NewProcess(ext, t, "github-dark") :
                      ext \in {".md", ".txt"}, t \in {"github", "neon"}}
        /\ p2m \in {NewPdfCall(FALSE, {}, <<"llava">>, "ok", 0)}
     \/ /\ cli \in {NewProcess(".pdf", "github", "github-dark")}
        /\ p2m \in PdfCalls
  /\ conv = <<[NewConversion(None) EXCEPT !.pc = "waiting"]>>
  /\ browserInstance = 0
  /\ browsers = <<>>
  /\ pages = {}
  /\ files = <<"absent">>
  /\ cleanups = <<[NewCleanup EXCEPT !.pc = "waiting"]>>
  /\ marked = <<>>

NextCli ==
  \/ Action
  \/ ValidateTheme
  \/ \E p \in 1..1 :
       \/ ValidateInputFile(p)
       \/ ReadFile(p)
       \/ ValidateMarkdown(p)
       \/ Parse(p)
       \/ ProcessCodeBlocks(p)
       \/ Assemble(p)
       \/ MakeOutputDir(p)
       \/ GetBrowser(p)
       \/ Launch(p)
       \/ NewPage(p)
       \/ SetViewport(p)
       \/ SetContent(p)
       \/ PrintPdf(p)
       \/ ClosePage(p)
       \/ AddMetadata(p)
       \/ GetPdfStats(p)
  \/ MarkdownResult
  \/ Finally
  \/ \E k \in 1..1 :
       \/ CloseBrowser(k)
       \/ BrowserClosed(k)
       \/ ClearBrowserInstance(k)
  \/ HandlerReturns
  \/ CheckOllamaConnection
  \/ ListVisionModels
  \/ ValidatePdfFile
  \/ ShowModel
  \/ Bulk
  \/ ProcessPage
  \/ WriteMarkdown
  \/ ServerStops
  \/ PdfResult

SpecCli == InitCli /\ [][NextCli]_vars

(***************************************************************************)
(* C25  The command exits with 0 when the conversion succeeded and with a  *)
(* code other than 0 after an invalid theme, an unsupported file type, a   *)
(* failed Markdown-to-PDF result, an unreachable vision server, no vision  *)
(* model, or a failed PDF-to-Markdown result.                              *)
(***************************************************************************)
IsMarkdownRun == cli.ext \in {".md", ".markdown"}
IsPdfRun == cli.ext = ".pdf"

C25_ExitCodeTellsSuccess ==
  Exited =>
    /\ ~IsMarkdownRun /\ ~IsPdfRun => cli.exitCode # 0
    /\ IsMarkdownRun /\ cli.theme \notin OwnThemeKeys => cli.exitCode # 0
    /\ IsMarkdownRun /\ conv[1].pc = "returned" =>
         (cli.exitCode = 0 <=> conv[1].result.success)
    /\ IsPdfRun /\ p2m.pc = "waiting" => cli.exitCode # 0
    /\ IsPdfRun /\ p2m.pc = "returned" => (cli.exitCode = 0 <=> p2m.result.success)
    /\ cli.exitCode = 0 =>
         \/ IsMarkdownRun /\ conv[1].pc = "returned"
         \/ IsPdfRun /\ p2m.pc = "returned"

C25_Witness ==
  /\ Exited
  /\ cli.exitCode = 0
  /\ conv[1].result.success
  /\ browsers = <<"closed">>

(***************************************************************************)
(* C26  PDF to Markdown: when the vision server cannot be reached, or      *)
(* neither the model asked for nor any of its tag variants is there, the   *)
(* run fails before any page is made into an image or sent to the model,   *)
(* and no output file is written.                                          *)
(***************************************************************************)
NothingConverted == p2m.images = 0 /\ p2m.sent = 0 /\ p2m.output = "absent"

NamesTried(model) ==
  {model, Append(model, "latest"), Append(model, "7b"), Append(model, "13b")}

ModelUnavailable == ~p2m.reachable \/ NamesTried(p2m.model) \cap p2m.models = {}

C26_FailsBeforeAnyPage ==
  /\ [](/\ cli.message \in {"Ollama is not running", "No vision models found"} =>
             p2m.pc = "waiting" /\ NothingConverted
        /\ p2m.result.error = ModelNotFound => NothingConverted)
  /\ [][/\ cli.pc = "checkOllamaConnection" /\ cli' # cli /\ ~p2m.reachable =>
             Exited' /\ cli'.exitCode = 1
        /\ p2m.pc = "show" /\ p2m'.pc # "show" /\ ModelUnavailable =>
             p2m'.result = MdFailure(ModelNotFound)]_vars

\* the server went away after the command had found it and its models
C26_Witness ==
  /\ Exited
  /\ cli.exitCode = 1
  /\ ~p2m.reachable
  /\ p2m.result.error = ModelNotFound
  /\ NothingConverted

(***************************************************************************)
(* C28  The Markdown-to-PDF handler has called cleanup(), and cleanup()    *)
(* has resolved, before the process exits, on every path on which a        *)
(* browser was launched.                                                   *)
(***************************************************************************)
C28_CleanupBeforeExit ==
  Exited /\ browsers # <<>> =>
    /\ cleanups[1].pc = "resolved"
    /\ OpenBrowsers = {}

(***************************************************************************)
(* parseMarkdown and the renderers it registers (parser.ts:11, 20-58).     *)
(* marked keeps one global chain of renderer extensions; marked.use adds   *)
(* one that is asked first, and an older one is asked only when the newer  *)
(* one returns false.  Each call of parseMarkdown registers a renderer     *)
(* that pushes on the toc array of that call.  marked.use and marked.parse *)
(* run without a break (marked.parse is synchronous, the await of line 50  *)
(* comes after it); the call returns its toc array after the await.        *)
(***************************************************************************)
NumCalls == 2    \* calls of parseMarkdown in one process

gfmHeadingId == [kind |-> "gfmHeadingId", call |-> 0]
HeadingRenderer(n) == [kind |-> "parseMarkdown", call |-> n]

\* (a variant: every renderer passes the heading on to the older ones)
ReturnsFalse_Always(renderer) == TRUE

\* line 44: renderer.heading returns the markup of originalHeading, and
\* gfmHeadingId's heading returns markup too
ReturnsFalse(renderer) == FALSE

\* the renderers marked calls for one heading, the newest first
RECURSIVE Asked(_, _)
Asked(registry, i) ==
  IF i = 0 THEN {}
  ELSE IF ReturnsFalse(registry[i]) THEN {i} \cup Asked(registry, i - 1)
  ELSE {i}

\* the calls whose renderer.heading runs for each heading that is parsed
CallsAsked(registry) ==
  {registry[i].call : i \in {j \in Asked(registry, Len(registry)) : registry[j].kind = "parseMarkdown"}}

\* lines 22-50: the toc array, the renderer, marked.use and marked.parse
UseAndParse(n) ==
  /\ pc[n] = "called"
  /\ marked' = Append(marked, HeadingRenderer(n))
  /\ parsed' = [m \in DOMAIN parsed |->
                  IF m \in CallsAsked(marked')
                    THEN parsed[m] \o RenderToc(input[n]) ELSE parsed[m]]
  /\ pc' = [pc EXCEPT ![n] = "await"]
  /\ UNCHANGED <<input, options, result>>
  /\ UNCHANGED <<procVars, cleanups, cli, p2m>>

\* lines 50-57: the await resumes and the call returns its toc array
ReturnToc(n) ==
  /\ pc[n] = "await"
  /\ pc' = [pc EXCEPT ![n] = "returned"]
  /\ UNCHANGED <<input, parsed, options, result>>
  /\ UNCHANGED <<procVars, callVars>>

\* Specification SpecMarked: NumCalls calls of parseMarkdown, made together
\* or one after the other, each with a document of CallDocs.
CallDocs ==
  {<<>>,
   <<MdHeading(1, <<"A", " ", "B">>)>>,
   <<MdHeading(2, <<"A", "-", "B">>), MdParagraph, MdHeading(4, <<"A", " ", "B">>)>>,
   <<MdHeading(3, <<"A", " ", "B">>), MdHeading(3, <<"A", " ", "B">>)>>}

InitMarked ==
  /\ pc = [n \in 1..NumCalls |-> "called"]
  /\ input \in [1..NumCalls -> CallDocs]
  /\ parsed = [n \in 1..NumCalls |-> <<>>]
  /\ options = None
  /\ result = None
  /\ NoConversions
  /\ cleanups = <<>>
  /\ cli = None
  /\ p2m = None
  /\ marked = <<gfmHeadingId>>

NextMarked ==
  \E n \in 1..NumCalls :
    \/ UseAndParse(n)
    \/ ReturnToc(n)

SpecMarked == InitMarked /\ [][NextMarked]_vars

(***************************************************************************)
(* C29  The toc of a parseMarkdown call holds the level 1-3 headings of    *)
(* that call's document, in order and once each, whatever calls were made  *)
(* before it, are in flight with it or are made after it returned.         *)
(***************************************************************************)
C29_TocHoldsOnlyOwnHeadings ==
  \A n \in DOMAIN pc :
    /\ pc[n] = "called" => parsed[n] = <<>>
    /\ pc[n] \in {"await", "returned"} => parsed[n] = RenderToc(input[n])

\* a call that returned before another one parsed a document with headings
C29_Witness ==
  \E n, m \in DOMAIN pc :
    /\ pc[n] = "returned" /\ pc[m] = "returned"
    /\ marked = <<gfmHeadingId, HeadingRenderer(n), HeadingRenderer(m)>>
    /\ Len(parsed[n]) = 1
    /\ Len(parsed[m]) = 2

(***************************************************************************)
(* processCodeBlocks and decodeHtml (src/unnamed/part_001:273-307,         *)
(* 333-340) on the text of a document.  A text is a sequence of            *)
(* characters; the tags around a code block and the markup around it are   *)
(* one element each.                                                       *)
(***************************************************************************)
MaxCodeLen == 4    \* characters of a code block

CodeOpen == "<pre><code class=\"language-js\">"
CodeClose == "</code></pre>"
OtherMarkup == "<p>text</p>"

Chars(str) == [i \in 1..Len(str) |-> SubSeq(str, i, i)]

\* the first index at which sub occurs in s, 0 when it does not
IndexOf(s, sub) ==
  LET at == {i \in 1..(Len(s) - Len(sub) + 1) : SubSeq(s, i, i + Len(sub) - 1) = sub}
  IN IF at = {} THEN 0 ELSE MinOf(at)

\* s.replace(/pattern/g, by) for a literal pattern
RECURSIVE ReplaceAll(_, _, _)
ReplaceAll(s, pattern, by) ==
  IF Len(s) < Len(pattern) THEN s
  ELSE IF SubSeq(s, 1, Len(pattern)) = pattern
    THEN by \o ReplaceAll(SubSeq(s, Len(pattern) + 1, Len(s)), pattern, by)
  ELSE <<Head(s)>> \o ReplaceAll(Tail(s), pattern, by)

\* the escaping marked applies to the text of a code block
MarkedEscapeChar(c) ==
  CASE c = "&" -> Chars("&amp;")
    [] c = "<" -> Chars("&lt;")
    [] c = ">" -> Chars("&gt;")
    [] OTHER -> <<c>>

RECURSIVE MarkedEscape(_)
MarkedEscape(s) == IF s = <<>> THEN <<>> ELSE MarkedEscapeChar(Head(s)) \o MarkedEscape(Tail(s))

\* the markup marked renders for a document that is a paragraph, a fenced
\* code block and a paragraph
RenderedCode(code) == <<OtherMarkup, CodeOpen>> \o MarkedEscape(code) \o <<CodeClose, OtherMarkup>>

\* decodeHtml (lines 333-340): the replacements in the order of the source
decodeHtml(html) ==
  LET amp == ReplaceAll(html, Chars("&amp;"), Chars("&"))
      lt == ReplaceAll(amp, Chars("&lt;"), Chars("<"))
      gt == ReplaceAll(lt, Chars("&gt;"), Chars(">"))
      quot == ReplaceAll(gt, Chars("&quot;"), Chars("\""))
  IN ReplaceAll(quot, Chars("&#39;"), Chars("'"))

\* highlighter.codeToHtml: the code, escaped, inside the markup of the theme
ShikiEscapeChar(c) ==
  CASE c = "&" -> Chars("&#x26;")
    [] c = "<" -> Chars("&#x3C;")
    [] OTHER -> <<c>>

RECURSIVE ShikiEscape(_)
ShikiEscape(s) == IF s = <<>> THEN <<>> ELSE ShikiEscapeChar(Head(s)) \o ShikiEscape(Tail(s))

highlightCode(code) == <<"<pre class=\"shiki\"><code>">> \o ShikiEscape(code) \o <<"</code></pre>">>

\* the replacement patterns String.prototype.replace expands in a
\* replacement string: $$ is one $, $& is the matched text
RECURSIVE ExpandReplacement(_, _)
ExpandReplacement(by, matched) ==
  IF by = <<>> THEN <<>>
  ELSE IF Len(by) >= 2 /\ by[1] = "$" /\ by[2] = "$"
    THEN <<"$">> \o ExpandReplacement(SubSeq(by, 3, Len(by)), matched)
  ELSE IF Len(by) >= 2 /\ by[1] = "$" /\ by[2] = "&"
    THEN matched \o ExpandReplacement(SubSeq(by, 3, Len(by)), matched)
  ELSE <<Head(by)>> \o ExpandReplacement(Tail(by), matched)

\* s.replace(pattern, by) for a string pattern: the first occurrence only
Replace(s, pattern, by) ==
  LET i == IndexOf(s, pattern)
  IN IF i = 0 THEN s
     ELSE SubSeq(s, 1, i - 1) \o ExpandReplacement(by, pattern)
          \o SubSeq(s, i + Len(pattern), Len(s))

\* the match of codeBlockRegex in html: from the opening tag to the first
\* closing tag after it
MatchCodeBlock(html) ==
  LET open == IndexOf(html, <<CodeOpen>>)
      close == MinOf({i \in open..Len(html) : html[i] = CodeClose})
  IN [fullMatch |-> SubSeq(html, open, close), code |-> SubSeq(html, open + 1, close - 1)]

\* processCodeBlocks (lines 273-307) for a document with one code block:
\* the text handed to highlightCode and the document returned
processCodeBlocks(html) ==
  LET match == MatchCodeBlock(html)
      decodedCode == decodeHtml(match.code)
      highlighted == highlightCode(decodedCode)
  IN [handed |-> decodedCode, html |-> Replace(html, match.fullMatch, highlighted)]

\* marked renders the document
RenderCode ==
  /\ pc = "render"
  /\ parsed' = RenderedCode(input)
  /\ pc' = "highlight"
  /\ UNCHANGED <<input, options, result>>
  /\ UNCHANGED <<procVars, callVars>>

\* converter.ts:42
HighlightCodeBlocks ==
  /\ pc = "highlight"
  /\ result' = processCodeBlocks(parsed)
  /\ pc' = "done"
  /\ UNCHANGED <<input, parsed, options>>
  /\ UNCHANGED <<procVars, callVars>>

\* Specification SpecCode: a document with one fenced code block whose text
\* is any string of up to MaxCodeLen characters of CodeChars.
CodeChars == {"a", "&", "l", "t", ";", "$"}

InitCode ==
  /\ pc = "render"
  /\ input \in SeqsUpTo(CodeChars, MaxCodeLen)
  /\ parsed = None
  /\ options = None
  /\ result = None
  /\ NoConversions
  /\ NoCalls

NextCode ==
  \/ RenderCode
  \/ HighlightCodeBlocks

SpecCode == InitCode /\ [][NextCode]_vars

(***************************************************************************)
(* C30  The text handed to the highlighter is the source text of the code  *)
(* block, and the document returned is the document with the highlighter's *)
(* output in place of the block and everything else as it was.             *)
(***************************************************************************)
C30_CodeReachesHighlighterVerbatim ==
  pc = "done" =>
    /\ result.handed = input
    /\ result.html = <<OtherMarkup>> \o highlightCode(input) \o <<OtherMarkup>>

====
